---- MODULE Spec2Model ----
(***************************************************************************)
(* Model of the analytics/aggregation core and of the Firestore-backed     *)
(* service functions of src/src/services/firebaseServiceReal.ts.           *)
(*                                                                         *)
(* Time.  A Date is an instant, counted in ticks; a calendar day has       *)
(* TicksPerDay ticks.  The local clock is tz ticks ahead of UTC, so        *)
(* setHours(0,0,0,0) (local midnight) and toISOString() (UTC text) are     *)
(* different conversions of the same instant.  An entry's date string is   *)
(* the ISO text of an instant (the client builds it with toISOString()),   *)
(* so an entry carries the instant and IsoText renders its text.           *)
(*                                                                         *)
(* Optional fields.  A field that may be undefined is a sequence of        *)
(* length 0 (absent) or 1 (present).                                       *)
(*                                                                         *)
(* Numbers.  Math.round(n/d) is computed on integers as                    *)
(* floor((2n+d)/(2d)); the quotients that occur have denominators <= 30    *)
(* (or quiz totals dividing 100), where the floating-point value rounds    *)
(* the same way.  A comparison of an integer sum divided by a count with   *)
(* an integer (avgDepth >= 4) is decided by the exact quotient, because    *)
(* the division is correctly rounded.  The quiz average compared with 90   *)
(* is a sum of rounded quotients, and is computed in doubles.              *)
(***************************************************************************)
EXTENDS Integers, Sequences, FiniteSets, TLC

VARIABLES
    tz,         \* local clock minus UTC clock, in ticks (the browser's time zone)
    entries,    \* the DailyEntry[] argument of the aggregation functions
    student,    \* the StudentData fields checkAndAwardBadges reads besides entries
    dashStudents, \* the students the dashboard computation classifies
    out,        \* what the last call of an aggregation function returned
    students,   \* the students collection: student id -> document, if any
    dailyEntries, \* the dailyEntries collection: document id -> document, if any
    adminData,  \* the adminData/dashboard document, if any
    calls,      \* the service calls in flight, one per caller
    returned,   \* the outcome of the call that completed last
    users,      \* the users collection: uid -> profile, if any
    adminUsers, \* the adminUsers collection: the uids that have a document
    dialog,     \* the state of the StudentsList component and of its modal
    pending     \* the removeUserCompletely calls StudentsList awaits

pureVars == <<tz, entries, student, dashStudents, out>>
storeVars == <<students, dailyEntries, adminData, calls, returned, users, adminUsers, dialog, pending>>
vars ==
    <<tz, entries, student, dashStudents, out, students, dailyEntries, adminData, calls, returned,
      users, adminUsers, dialog, pending>>

----------------------------------------------------------------------------
(* Bounds of the model *)

TicksPerDay == 2
MaxLen == 3
PadLen == 29
MaxDocs == 2
NumCallers == 2
MaxPending == 2
MaxStudents == 7

(* Program constants *)

WindowSize == 30
EngagementDays == 30
StreakBadgeMin == 7
ConsistencyBadgeMin == 90
DeepThinkerMinCount == 2
DeepThinkerMinDepth == 4
QuizWhizMinPct == 90

(* The day the model runs on: new Date() is the last tick of UTC day NowDay. *)
NowDay == 100

----------------------------------------------------------------------------
(* Dates *)

At(day, tod) == day * TicksPerDay + tod

Now == At(NowDay, TicksPerDay - 1)

\* new Date(x); x.setHours(0,0,0,0): the local calendar day of an instant
LocalDay(t) == (t + tz) \div TicksPerDay

\* the instant of local midnight of a local calendar day
LocalMidnight(day) == day * TicksPerDay - tz

\* x.toISOString().split('T')[0]: the UTC calendar day of an instant
UtcDay(t) == t \div TicksPerDay

Today == LocalDay(Now)

----------------------------------------------------------------------------
(* DailyEntry *)

Absent == <<>>

Entry(t, g, r, q) == [date |-> t, goal |-> g, reflection |-> r, quizEvaluation |-> q]

GoalDone == <<[completed |-> TRUE]>>
GoalOpen == <<[completed |-> FALSE]>>
Reflection(d) == <<[depth |-> d]>>
Quiz(s, t) == <<[score |-> s, total |-> t]>>

\* entry.goal || entry.reflection || entry.quizEvaluation
IsActive(e) == e.goal # Absent \/ e.reflection # Absent \/ e.quizEvaluation # Absent

Min(a, b) == IF a <= b THEN a ELSE b

\* Math.round(n / d) for d > 0: halves round up, also below zero
JsRound(n, d) == (2 * n + d) \div (2 * d)

\* arr.slice(-k)
SliceLast(s, k) == IF Len(s) <= k THEN s ELSE SubSeq(s, Len(s) - k + 1, Len(s))

\* arr.slice(0, k)
SliceFirst(s, k) == IF Len(s) <= k THEN s ELSE SubSeq(s, 1, k)

RECURSIVE SumSeq(_)
SumSeq(s) == IF s = <<>> THEN 0 ELSE Head(s) + SumSeq(Tail(s))

\* arr.filter(pred).length, with pred given as the set of indices it accepts
CountIdx(s, Ok(_)) == Cardinality({i \in 1..Len(s) : Ok(s[i])})

----------------------------------------------------------------------------
(* Array.prototype.sort with a comparator on the dates: a stable sort *)

InsertAsc(acc, x) ==
    LET k == Cardinality({i \in 1..Len(acc) : acc[i].date <= x.date})
    IN  SubSeq(acc, 1, k) \o <<x>> \o SubSeq(acc, k + 1, Len(acc))

InsertDesc(acc, x) ==
    LET k == Cardinality({i \in 1..Len(acc) : acc[i].date >= x.date})
    IN  SubSeq(acc, 1, k) \o <<x>> \o SubSeq(acc, k + 1, Len(acc))

RECURSIVE SortAscFrom(_, _, _)
SortAscFrom(s, i, acc) ==
    IF i > Len(s) THEN acc ELSE SortAscFrom(s, i + 1, InsertAsc(acc, s[i]))

RECURSIVE SortDescFrom(_, _, _)
SortDescFrom(s, i, acc) ==
    IF i > Len(s) THEN acc ELSE SortDescFrom(s, i + 1, InsertDesc(acc, s[i]))

\* [...entries].sort((a, b) => new Date(a.date).getTime() - new Date(b.date).getTime())
SortAsc(s) == SortAscFrom(s, 1, <<>>)

\* [...entries].sort((a, b) => new Date(b.date).getTime() - new Date(a.date).getTime())
SortDesc(s) == SortDescFrom(s, 1, <<>>)

----------------------------------------------------------------------------
(* calculateConsistencyAndStreak *)

\* a window taken from the other end of the sorted list: sortedEntries.slice(0, 30)
Last30Days_first(sorted) == SliceFirst(sorted, WindowSize)

\* sortedEntries.slice(-30)
Last30Days(sorted) == SliceLast(sorted, WindowSize)

ConsistencyOf(es) ==
    LET last30Days == Last30Days(SortAsc(es))
        activeDays == CountIdx(last30Days, IsActive)
    IN  JsRound(activeDays * 100, Min(WindowSize, Len(es)))

\* the for loop over recentEntries: entry i (0-based) must be dated today - i
RECURSIVE StreakFrom(_, _)
StreakFrom(recent, i) ==
    IF i >= Len(recent) THEN 0
    ELSE IF LocalDay(recent[i + 1].date) = Today - i /\ IsActive(recent[i + 1])
         THEN 1 + StreakFrom(recent, i + 1)
         ELSE 0

calculateConsistencyAndStreak(es) ==
    IF Len(es) = 0
    THEN [consistencyScore |-> 0, streak |-> 0]
    ELSE [consistencyScore |-> ConsistencyOf(es),
          streak |-> StreakFrom(SortDesc(es), 0)]

----------------------------------------------------------------------------
(* calculateDailyEngagement *)

GoalPoints(e) ==
    IF e.goal = Absent THEN 0
    ELSE 30 + (IF e.goal[1].completed THEN 10 ELSE 0)

\* the reflection points without the bonus from depth 4
ReflectionPoints_noBonus(e) ==
    IF e.reflection = Absent THEN 0 ELSE e.reflection[1].depth * 10

ReflectionPoints(e) ==
    IF e.reflection = Absent THEN 0
    ELSE e.reflection[1].depth * 10 + (IF e.reflection[1].depth >= 4 THEN 5 ELSE 0)

\* quizPerformance = score / total * 100; Math.round(quizPerformance * 0.25), +5 from 90
QuizPoints(e) ==
    IF e.quizEvaluation = Absent THEN 0
    ELSE LET q == e.quizEvaluation[1]
         IN  JsRound(25 * q.score, q.total)
               + (IF 100 * q.score >= 90 * q.total THEN 5 ELSE 0)

ActivityCount(e) ==
    (IF e.goal = Absent THEN 0 ELSE 1)
      + (IF e.reflection = Absent THEN 0 ELSE 1)
      + (IF e.quizEvaluation = Absent THEN 0 ELSE 1)

\* entries.filter(entry => local midnight of entry.date = date)
DayEntries(es, day) == SelectSeq(es, LAMBDA e : LocalDay(e.date) = day)

MapSeq(s, F(_)) == [i \in 1..Len(s) |-> F(s[i])]

\* one element of dailyEngagement: the entry for a local calendar day
DayEngagement(es, day) ==
    LET dayEntries == DayEntries(es, day)
        Points(e) == GoalPoints(e) + ReflectionPoints(e) + QuizPoints(e)
    IN  [date |-> UtcDay(LocalMidnight(day)),
         engagementScore |-> Min(100, SumSeq(MapSeq(dayEntries, Points))),
         activitiesCompleted |-> SumSeq(MapSeq(dayEntries, ActivityCount)),
         hasGoal |-> \E i \in 1..Len(dayEntries) : dayEntries[i].goal # Absent,
         hasReflection |-> \E i \in 1..Len(dayEntries) : dayEntries[i].reflection # Absent,
         hasQuiz |-> \E i \in 1..Len(dayEntries) : dayEntries[i].quizEvaluation # Absent]

\* the for loop that counts the trailing days with a positive score
\* the days with a positive score among the first i, gaps or not
StreakDaysFrom_all(de, i) ==
    Cardinality({k \in 1..i : de[k].engagementScore > 0})

RECURSIVE StreakDaysFrom(_, _)
StreakDaysFrom(de, i) ==
    IF i < 1 THEN 0
    ELSE IF de[i].engagementScore > 0 THEN 1 + StreakDaysFrom(de, i - 1) ELSE 0

ScoreSum(de, from, to) == SumSeq([i \in 1..(to - from + 1) |-> de[from + i - 1].engagementScore])

\* the ratio of the two averages in place of their relative difference
TrendTenths_ratio(lastSum, previousSum) ==
    IF previousSum > 0 THEN JsRound(lastSum * 1000, previousSum) ELSE 0

\* previousAverage > 0 ? ((lastAverage - previousAverage) / previousAverage) * 100 : 0,
\* then Math.round(x * 10) / 10: the result in tenths
TrendTenths(lastSum, previousSum) ==
    IF previousSum > 0 THEN JsRound((lastSum - previousSum) * 1000, previousSum) ELSE 0

EmptyMetrics ==
    [dailyEngagement |-> <<>>, averageDaily |-> 0, activeDays |-> 0,
     streakDays |-> 0, weeklyTrend |-> 0, monthlyTrend |-> 0]

FullMetrics(es) ==
    LET n  == EngagementDays
        de == [i \in 1..n |-> DayEngagement(es, Today - (n - i))]
    IN  [dailyEngagement |-> de,
         averageDaily |-> JsRound(ScoreSum(de, 1, n) * 10, 30),
         activeDays |-> CountIdx(de, LAMBDA d : d.engagementScore > 0),
         streakDays |-> StreakDaysFrom(de, n),
         weeklyTrend |-> TrendTenths(ScoreSum(de, n - 6, n), ScoreSum(de, n - 13, n - 7)),
         monthlyTrend |-> TrendTenths(ScoreSum(de, n - 13, n), ScoreSum(de, n - 27, n - 14))]

calculateDailyEngagement(es) ==
    IF Len(es) = 0 THEN EmptyMetrics ELSE FullMetrics(es)

----------------------------------------------------------------------------
(* IEEE-754 doubles.  The numbers the badge thresholds compare are sums and     *)
(* quotients of quiz ratios, whose last bits depend on the rounding of every    *)
(* operation.  A double of magnitude in [2^-7, 2^10), or 0, is a multiple of    *)
(* 2^-FracBits; it is held as that multiple, a natural number below 2^80        *)
(* written in four limbs of LimbBits bits, lowest limb first.                    *)

LimbBits == 20
LimbBase == 2^LimbBits
FracBits == 3 * LimbBits
Mantissa == 53

BigOf(k) == <<k % LimbBase, k \div LimbBase, 0, 0>>

BigAdd(a, b) ==
    LET s1 == a[1] + b[1]
        s2 == a[2] + b[2] + s1 \div LimbBase
        s3 == a[3] + b[3] + s2 \div LimbBase
        s4 == a[4] + b[4] + s3 \div LimbBase
    IN  <<s1 % LimbBase, s2 % LimbBase, s3 % LimbBase, s4 % LimbBase>>

\* a * k for a small k
BigTimes(a, k) ==
    LET p1 == a[1] * k
        p2 == a[2] * k + p1 \div LimbBase
        p3 == a[3] * k + p2 \div LimbBase
        p4 == a[4] * k + p3 \div LimbBase
    IN  <<p1 % LimbBase, p2 % LimbBase, p3 % LimbBase, p4 % LimbBase>>

\* quotient and remainder of a by a small n
BigDivMod(a, n) ==
    LET r4 == a[4]
        r3 == (r4 % n) * LimbBase + a[3]
        r2 == (r3 % n) * LimbBase + a[2]
        r1 == (r2 % n) * LimbBase + a[1]
    IN  [quot |-> <<r1 \div n, r2 \div n, r3 \div n, r4 \div n>>, rem |-> r1 % n]

BigGeq(a, b) ==
    \/ a = b
    \/ \E i \in 1..4 : a[i] > b[i] /\ \A j \in (i + 1)..4 : a[j] = b[j]

\* the number of bits of a
BigBits(a) ==
    IF a = <<0, 0, 0, 0>> THEN 0
    ELSE LET top == CHOOSE i \in 1..4 : a[i] > 0 /\ \A j \in (i + 1)..4 : a[j] = 0
         IN  LimbBits * (top - 1) + (CHOOSE k \in 1..LimbBits : 2^(k - 1) <= a[top] /\ a[top] < 2^k)

Limb(a, i) == IF i \in 1..4 THEN a[i] ELSE 0

\* floor(a / 2^d)
BigShr(a, d) ==
    LET w == d \div LimbBits
        b == d % LimbBits
    IN  [i \in 1..4 |-> Limb(a, i + w) \div 2^b
                          + (Limb(a, i + w + 1) % 2^b) * 2^(LimbBits - b)]

\* a * 2^d, for a result below 2^80
BigShl(a, d) ==
    LET w == d \div LimbBits
        b == d % LimbBits
    IN  [i \in 1..4 |-> (Limb(a, i - w) % 2^(LimbBits - b)) * 2^b
                          + Limb(a, i - w - 1) \div 2^(LimbBits - b)]

\* a mod 2^d for d < 30
BigLow(a, d) ==
    IF d <= LimbBits THEN a[1] % 2^d ELSE (a[2] % 2^(d - LimbBits)) * LimbBase + a[1]

\* the double nearest to num / n, ties to the even mantissa
RoundToDouble(num, n) ==
    LET dv == BigDivMod(num, n)
        q == dv.quot
        d == IF BigBits(q) > Mantissa THEN BigBits(q) - Mantissa ELSE 0
        m == BigShr(q, d)
        low == BigLow(q, d)
        up == IF d = 0
              THEN 2 * dv.rem > n \/ (2 * dv.rem = n /\ m[1] % 2 = 1)
              ELSE \/ low > 2^(d - 1)
                   \/ low = 2^(d - 1) /\ (dv.rem > 0 \/ m[1] % 2 = 1)
    IN  BigShl(IF up THEN BigAdd(m, BigOf(1)) ELSE m, d)

\* the double of an integer, and the operators /, +, * and >= of the code
DoubleOf(k) == BigShl(BigOf(k), FracBits)
DoubleDiv(x, n) == RoundToDouble(x, n)
DoubleAdd(x, y) == RoundToDouble(BigAdd(x, y), 1)
DoubleTimes(x, k) == RoundToDouble(BigTimes(x, k), 1)
DoubleGeq(x, k) == BigGeq(x, DoubleOf(k))

\* arr.reduce((sum, x) => sum + x, 0) over doubles
RECURSIVE DoubleSumFrom(_, _, _)
DoubleSumFrom(xs, i, acc) ==
    IF i > Len(xs) THEN acc ELSE DoubleSumFrom(xs, i + 1, DoubleAdd(acc, xs[i]))
DoubleSum(xs) == DoubleSumFrom(xs, 1, DoubleOf(0))

----------------------------------------------------------------------------
(* checkAndAwardBadges *)

ALL_BADGES == <<"streak-7", "consistency-90", "deep-thinker", "quiz-whiz", "perfect-week">>

Range(s) == {s[i] : i \in 1..Len(s)}

\* new Map(student.badges.map(b => [b.id, b])): the keys in first-insertion order
RECURSIVE MapKeys(_)
MapKeys(s) ==
    IF s = <<>> THEN <<>>
    ELSE LET rest == MapKeys(SubSeq(s, 1, Len(s) - 1))
         IN  IF s[Len(s)] \in Range(rest) THEN rest ELSE Append(rest, s[Len(s)])

\* an award that does not look at the badges already held
Award_always(earned, cond, id) == IF cond THEN Append(earned, id) ELSE earned

\* if (cond && !earnedBadges.has(id)) earnedBadges.set(id, ...)
Award(earned, cond, id) ==
    IF cond /\ id \notin Range(earned) THEN Append(earned, id) ELSE earned

\* the deep-thinker condition from two reflections on
DeepThinkerCond_fromTwo(es) ==
    LET reflections == SelectSeq(es, LAMBDA e : e.reflection # Absent)
        depthSum == SumSeq(MapSeq(reflections, LAMBDA e : e.reflection[1].depth))
    IN  /\ Len(reflections) >= DeepThinkerMinCount
        /\ depthSum >= DeepThinkerMinDepth * Len(reflections)

DeepThinkerCond(es) ==
    LET reflections == SelectSeq(es, LAMBDA e : e.reflection # Absent)
        depthSum == SumSeq(MapSeq(reflections, LAMBDA e : e.reflection[1].depth))
    IN  /\ Len(reflections) > DeepThinkerMinCount
        /\ depthSum >= DeepThinkerMinDepth * Len(reflections)

\* avgScore = (quizzes.reduce((sum, q) => sum + q.score / q.total, 0)
\*              / quizzes.length) * 100, in doubles; avgScore >= 90
QuizWhizCond(es) ==
    LET quizzes == SelectSeq(es, LAMBDA e : e.quizEvaluation # Absent)
        ratios == MapSeq(quizzes, LAMBDA e : DoubleDiv(DoubleOf(e.quizEvaluation[1].score),
                                                       e.quizEvaluation[1].total))
        avgScore == DoubleTimes(DoubleDiv(DoubleSum(ratios), Len(quizzes)), 100)
    IN  /\ Len(quizzes) > 0
        /\ DoubleGeq(avgScore, QuizWhizMinPct)

\* the badge ids a recomputation would award from the current data alone
checkAndAwardBadges_recompute(st, es) ==
    Award(Award(Award(Award(<<>>,
        st.streak >= StreakBadgeMin, "streak-7"),
        st.consistencyScore >= ConsistencyBadgeMin, "consistency-90"),
        DeepThinkerCond(es), "deep-thinker"),
        QuizWhizCond(es), "quiz-whiz")

\* the badges with 'perfect-week' awarded along with 'streak-7'
checkAndAwardBadges_perfectWeek(st, es) ==
    Award(Award(Award(Award(Award(MapKeys(st.badges),
        st.streak >= StreakBadgeMin, "streak-7"),
        st.consistencyScore >= ConsistencyBadgeMin, "consistency-90"),
        DeepThinkerCond(es), "deep-thinker"),
        QuizWhizCond(es), "quiz-whiz"),
        st.streak >= StreakBadgeMin, "perfect-week")

\* returns student.badges (as badge ids) after the call
checkAndAwardBadges(st, es) ==
    Award(Award(Award(Award(MapKeys(st.badges),
        st.streak >= StreakBadgeMin, "streak-7"),
        st.consistencyScore >= ConsistencyBadgeMin, "consistency-90"),
        DeepThinkerCond(es), "deep-thinker"),
        QuizWhizCond(es), "quiz-whiz")

----------------------------------------------------------------------------
(* Text of dates and ids *)

Digit(d) == <<"0", "1", "2", "3", "4", "5", "6", "7", "8", "9">>[d + 1]

\* date.toISOString(): the UTC calendar day in three digits, "T", the time of day
IsoText(t) ==
    LET d == UtcDay(t)
    IN  <<Digit((d \div 100) % 10), Digit((d \div 10) % 10), Digit(d % 10), "T",
          Digit(t % TicksPerDay)>>

\* text.includes(sub)
Includes(text, sub) ==
    \E i \in 0..(Len(text) - Len(sub)) : SubSeq(text, i + 1, i + Len(sub)) = sub

\* a uid as Firebase Auth issues it, and an id made of digits
SidU == <<"u", "7">>
SidD == <<"0", "0">>

\* the students collection in document-id order
StudentIds == <<SidD, SidU>>

----------------------------------------------------------------------------
(* getAdminDashboardData: the computation between the reads and the cache write *)

AtRiskMissedGoals == 2
AtRiskMinDepth == 2
AtRiskMinConsistency == 60
AtRiskCap == 5

\* allEntries.filter(e => e.date.includes(student.studentId))
StudentEntries(allEntries, sid) ==
    SelectSeq(allEntries, LAMBDA e : Includes(IsoText(e.date), sid))

\* studentEntries.filter(e => !e.goal?.completed).length
MissedGoals(es) == CountIdx(es, LAMBDA e : ~(e.goal # Absent /\ e.goal[1].completed))

DepthSum(es) ==
    SumSeq(MapSeq(SelectSeq(es, LAMBDA e : e.reflection # Absent),
                  LAMBDA e : e.reflection[1].depth))

ReflectionCount(es) == CountIdx(es, LAMBDA e : e.reflection # Absent)

QuizCount(es) == CountIdx(es, LAMBDA e : e.quizEvaluation # Absent)

QuizPctSum(es) ==
    SumSeq(MapSeq(SelectSeq(es, LAMBDA e : e.quizEvaluation # Absent),
                  LAMBDA e : (100 * e.quizEvaluation[1].score) \div e.quizEvaluation[1].total))

\* avgDepth < 2, where avgDepth is 0 without reflections
LowDepth(es) ==
    IF ReflectionCount(es) > 0 THEN DepthSum(es) < AtRiskMinDepth * ReflectionCount(es)
    ELSE TRUE

\* the filter with a consistency threshold one above that of the reason chain
IsAtRisk_upTo(st, allEntries) ==
    LET es == StudentEntries(allEntries, st.studentId)
    IN  \/ MissedGoals(es) > AtRiskMissedGoals
        \/ LowDepth(es)
        \/ st.consistencyScore <= AtRiskMinConsistency

\* the predicate of students.filter(...)
IsAtRisk(st, allEntries) ==
    LET es == StudentEntries(allEntries, st.studentId)
    IN  \/ MissedGoals(es) > AtRiskMissedGoals
        \/ LowDepth(es)
        \/ st.consistencyScore < AtRiskMinConsistency

\* the .map(...) function with the consistency test moved to the front of the
\* reason chain
AtRiskStudent_consistencyFirst(st, allEntries) ==
    LET es == StudentEntries(allEntries, st.studentId)
    IN  [id |-> st.studentId,
         reason |-> IF st.consistencyScore < AtRiskMinConsistency
                    THEN <<"Low consistency score">>
                    ELSE IF MissedGoals(es) > AtRiskMissedGoals
                         THEN <<"Missed", MissedGoals(es), "goals">>
                         ELSE IF LowDepth(es) THEN <<"Low reflection depth">>
                                              ELSE <<"Multiple issues">>,
         missedGoals |-> MissedGoals(es),
         avgReflectionDepth |-> IF ReflectionCount(es) > 0
                                THEN JsRound(DepthSum(es) * 10, ReflectionCount(es)) ELSE 0,
         avgTestScore |-> IF QuizCount(es) > 0
                          THEN JsRound(QuizPctSum(es), QuizCount(es)) ELSE 0]

\* the function of .map(...); a reason is the list of the parts of its text
AtRiskStudent(st, allEntries) ==
    LET es == StudentEntries(allEntries, st.studentId)
    IN  [id |-> st.studentId,
         reason |-> IF MissedGoals(es) > AtRiskMissedGoals THEN <<"Missed", MissedGoals(es), "goals">>
                    ELSE IF LowDepth(es) THEN <<"Low reflection depth">>
                    ELSE IF st.consistencyScore < AtRiskMinConsistency
                         THEN <<"Low consistency score">>
                         ELSE <<"Multiple issues">>,
         missedGoals |-> MissedGoals(es),
         avgReflectionDepth |-> IF ReflectionCount(es) > 0
                                THEN JsRound(DepthSum(es) * 10, ReflectionCount(es)) ELSE 0,
         avgTestScore |-> IF QuizCount(es) > 0
                          THEN JsRound(QuizPctSum(es), QuizCount(es)) ELSE 0]

\* kpis: the percentages and the depth (in tenths) over all entries
Kpis(allEntries) ==
    [goalCompletion |->
        IF Len(allEntries) > 0
        THEN JsRound(100 * CountIdx(allEntries,
                              LAMBDA e : e.goal # Absent /\ e.goal[1].completed),
                     Len(allEntries))
        ELSE 0,
     avgReflectionDepth |->
        IF ReflectionCount(allEntries) > 0
        THEN JsRound(DepthSum(allEntries) * 10, ReflectionCount(allEntries)) ELSE 0,
     avgTestPerformance |->
        IF QuizCount(allEntries) > 0
        THEN JsRound(QuizPctSum(allEntries), QuizCount(allEntries)) ELSE 0]

\* adminData with the list cut from its other end: atRiskStudents.slice(-5)
AdminDashboard_lastFive(studentList, allEntries) ==
    [kpis |-> Kpis(allEntries),
     atRiskStudents |->
        SliceLast(MapSeq(SelectSeq(studentList, LAMBDA st : IsAtRisk(st, allEntries)),
                         LAMBDA st : AtRiskStudent(st, allEntries)),
                  AtRiskCap)]

\* adminData as computed from the two snapshots
AdminDashboard(studentList, allEntries) ==
    [kpis |-> Kpis(allEntries),
     atRiskStudents |->
        SliceFirst(MapSeq(SelectSeq(studentList, LAMBDA st : IsAtRisk(st, allEntries)),
                          LAMBDA st : AtRiskStudent(st, allEntries)),
                   AtRiskCap)]

----------------------------------------------------------------------------
(* The Firestore collections and the service calls *)

Callers == 1..NumCallers
DocIds == 1..MaxDocs
Sids == Range(StudentIds)

\* the entries a client submits
SubmittedEntries ==
    {Entry(At(NowDay, 0), GoalOpen, Absent, Absent),
     Entry(At(NowDay, 0), Absent, Reflection(4), Absent)}

\* the options of removeUserCompletely, all off
NoOptions ==
    [deleteAuthAccount |-> FALSE, clearBrowserData |-> FALSE, clearExternalData |-> FALSE]

IdleCall ==
    [op |-> "none", pc |-> "idle", studentId |-> <<>>, entry |-> <<>>, sdoc |-> <<>>,
     found |-> <<>>, data |-> <<>>, adminUserId |-> <<>>, options |-> NoOptions,
     steps |-> <<>>]

\* a call's outcome: the value its promise resolves to, or the error it rejects with
Outcome(call, value, error) ==
    [op |-> call.op, studentId |-> call.studentId, entry |-> call.entry,
     value |-> value, err |-> error]

NoOutcome == Outcome(IdleCall, <<>>, "")

\* uids: the two student ids and the uids of two administrators
AdminA == <<"a">>
AdminB == <<"b">>
Uids == Sids \cup {AdminA, AdminB}

\* StudentsList before any click: no modal, no removal; the modal's options are
\* the initial state of UserDeletionModal
ClosedDialog ==
    [showDeletionModal |-> <<>>, removingUserId |-> <<>>,
     deletionOptions |-> [NoOptions EXCEPT !.clearBrowserData = TRUE]]

\* the collections without a document, no call in flight
EmptyStore ==
    /\ students = [sid \in Sids |-> <<>>]
    /\ dailyEntries = [id \in DocIds |-> <<>>]
    /\ adminData = <<>>
    /\ calls = [c \in Callers |-> IdleCall]
    /\ returned = NoOutcome
    /\ dialog = ClosedDialog
    /\ pending = <<>>

StoreInit ==
    /\ EmptyStore
    /\ users = [uid \in Uids |-> <<>>]
    /\ adminUsers = {}

CanStart(c) == calls[c].pc = "idle"

\* the ids of the documents a query selects, in document-id order
Query(Match(_)) ==
    SelectSeq([i \in DocIds |-> i],
              LAMBDA id : dailyEntries[id] # <<>> /\ Match(dailyEntries[id][1]))

\* entries.push({date, goal, reflection, quizEvaluation}) for each document of a snapshot
ReadEntries(ids) ==
    [i \in 1..Len(ids) |->
        LET d == dailyEntries[ids[i]][1]
        IN  Entry(d.date, d.goal, d.reflection, d.quizEvaluation)]

\* the newStudent object of getStudentData
NewStudent(sid) ==
    [studentId |-> sid, consistencyScore |-> 0, streak |-> 0, badges |-> <<>>,
     entries |-> <<>>, dailyEngagement |-> <<>>]

\* studentData after the recomputation of getStudentData over the entries read
RecomputedStudent(sdoc, es) ==
    LET sorted == SortDesc(es)
        cs == calculateConsistencyAndStreak(sorted)
        st == [streak |-> cs.streak, consistencyScore |-> cs.consistencyScore,
               badges |-> sdoc.badges]
    IN  [studentId |-> sdoc.studentId,
         consistencyScore |-> cs.consistencyScore,
         streak |-> cs.streak,
         badges |-> checkAndAwardBadges(st, sorted),
         entries |-> sorted,
         dailyEngagement |-> <<calculateDailyEngagement(sorted)>>]

\* the document a students document becomes: updateDoc replaces the four fields
\* it names, setDoc stores the whole object (its entries field stays [])
StudentDoc(d) ==
    [studentId |-> d.studentId, consistencyScore |-> d.consistencyScore,
     streak |-> d.streak, badges |-> d.badges, dailyEngagement |-> d.dailyEngagement]

\* entryData: the defined fields of the entry, studentId and dateString
EntryData(sid, e) ==
    [studentId |-> sid, dateString |-> UtcDay(e.date), date |-> e.date,
     goal |-> e.goal, reflection |-> e.reflection, quizEvaluation |-> e.quizEvaluation]

\* a field of entryData is written unless cleanEntry dropped it as undefined
Defined(new, old) == IF new = Absent THEN old ELSE new

\* updateDoc(existingDoc.ref, entryData): the fields of entryData replace the
\* document's, the other fields of the document stay
UpdatedEntryDoc(old, new) ==
    [studentId |-> new.studentId, dateString |-> new.dateString, date |-> new.date,
     goal |-> Defined(new.goal, old.goal),
     reflection |-> Defined(new.reflection, old.reflection),
     quizEvaluation |-> Defined(new.quizEvaluation, old.quizEvaluation)]

InAddPhase(c) == calls[c].pc \in {"A_query", "A_write"}

StartGetStudentData(c, sid) ==
    /\ CanStart(c)
    /\ calls' = [calls EXCEPT ![c] =
                   [IdleCall EXCEPT !.op = "get", !.pc = "G_getDoc", !.studentId = sid]]
    /\ UNCHANGED <<students, dailyEntries, adminData, tz, entries, student, dashStudents, out, returned, users, adminUsers, dialog, pending>>

\* addDoc needs a free document id: a call starts only if one will be left for it
StartAddOrUpdateDailyEntry(c, sid) ==
    /\ CanStart(c)
    /\ Cardinality({id \in DocIds : dailyEntries[id] # <<>>})
         + Cardinality({d \in Callers : InAddPhase(d)}) < MaxDocs
    /\ \E e \in SubmittedEntries :
          calls' = [calls EXCEPT ![c] =
                      [IdleCall EXCEPT !.op = "add", !.pc = "A_query", !.studentId = sid,
                                       !.entry = <<e>>]]
    /\ UNCHANGED <<students, dailyEntries, adminData, tz, entries, student, dashStudents, out, returned, users, adminUsers, dialog, pending>>

\* const existingEntrySnapshot = await getDocs(existingEntryQuery)
AddQuery(c) ==
    /\ calls[c].pc = "A_query"
    /\ LET sid == calls[c].studentId
           day == UtcDay(calls[c].entry[1].date)
       IN  calls' = [calls EXCEPT ![c].pc = "A_write",
                       ![c].found = Query(LAMBDA d : d.studentId = sid /\ d.dateString = day)]
    /\ UNCHANGED <<students, dailyEntries, adminData, tz, entries, student, dashStudents, out, returned, users, adminUsers, dialog, pending>>

\* await updateDoc(existingDoc.ref, entryData) or await addDoc(..., entryData);
\* updateDoc throws when the document is gone
AddWrite(c) ==
    /\ calls[c].pc = "A_write"
    /\ LET new == EntryData(calls[c].studentId, calls[c].entry[1])
           found == calls[c].found
       IN  IF found # <<>>
           THEN IF dailyEntries[found[1]] = <<>>
                THEN /\ calls' = [calls EXCEPT ![c] = IdleCall]
                     /\ returned' = Outcome(calls[c], <<>>, "Failed to save daily entry")
                     /\ UNCHANGED dailyEntries
                ELSE /\ dailyEntries' = [dailyEntries EXCEPT ![found[1]] =
                                           <<UpdatedEntryDoc(dailyEntries[found[1]][1], new)>>]
                     /\ calls' = [calls EXCEPT ![c].pc = "G_getDoc"]
                     /\ UNCHANGED returned
           ELSE /\ \E id \in DocIds :
                      /\ dailyEntries[id] = <<>>
                      /\ dailyEntries' = [dailyEntries EXCEPT ![id] = <<new>>]
                /\ calls' = [calls EXCEPT ![c].pc = "G_getDoc"]
                /\ UNCHANGED returned
    /\ UNCHANGED <<students, adminData, tz, entries, student, dashStudents, out, users, adminUsers, dialog, pending>>

\* const studentDoc = await getDoc(doc(db, 'students', studentId))
GetDoc(c) ==
    /\ calls[c].pc = "G_getDoc"
    /\ LET sdoc == students[calls[c].studentId]
       IN  calls' = [calls EXCEPT ![c].sdoc = sdoc,
                       ![c].pc = IF sdoc = <<>> THEN "G_setDoc" ELSE "G_getDocs"]
    /\ UNCHANGED <<students, dailyEntries, adminData, tz, entries, student, dashStudents, out, returned, users, adminUsers, dialog, pending>>

\* await setDoc(doc(db, 'students', studentId), newStudent); return newStudent
CreateStudent(c) ==
    /\ calls[c].pc = "G_setDoc"
    /\ LET sid == calls[c].studentId
       IN  /\ students' = [students EXCEPT ![sid] = <<StudentDoc(NewStudent(sid))>>]
           /\ calls' = [calls EXCEPT ![c] = IdleCall]
           /\ returned' = Outcome(calls[c], <<NewStudent(sid)>>, "")
    /\ UNCHANGED <<dailyEntries, adminData, tz, entries, student, dashStudents, out, users, adminUsers, dialog, pending>>

\* const entriesSnapshot = await getDocs(entriesQuery), and the synchronous
\* recomputation that follows it
GetDocs(c) ==
    /\ calls[c].pc = "G_getDocs"
    /\ LET sid == calls[c].studentId
           es == ReadEntries(Query(LAMBDA d : d.studentId = sid))
       IN  calls' = [calls EXCEPT ![c].pc = "G_updateDoc",
                       ![c].data = <<RecomputedStudent(calls[c].sdoc[1], es)>>]
    /\ UNCHANGED <<students, dailyEntries, adminData, tz, entries, student, dashStudents, out, returned, users, adminUsers, dialog, pending>>

\* await updateDoc(doc(db, 'students', studentId), {...}); return studentData.
\* updateDoc throws when the document is gone; the catch blocks rethrow
UpdateStudent(c) ==
    /\ calls[c].pc = "G_updateDoc"
    /\ LET sid == calls[c].studentId
       IN  IF students[sid] = <<>>
           THEN /\ returned' = Outcome(calls[c], <<>>,
                                        IF calls[c].op = "add"
                                        THEN "Failed to save daily entry"
                                        ELSE "Failed to fetch student data")
                /\ UNCHANGED students
           ELSE /\ students' = [students EXCEPT ![sid] = <<StudentDoc(calls[c].data[1])>>]
                /\ returned' = Outcome(calls[c], calls[c].data, "")
    /\ calls' = [calls EXCEPT ![c] = IdleCall]
    /\ UNCHANGED <<dailyEntries, adminData, tz, entries, student, dashStudents, out, users, adminUsers, dialog, pending>>

StartGetAdminDashboardData(c) ==
    /\ CanStart(c)
    /\ calls' = [calls EXCEPT ![c] = [IdleCall EXCEPT !.op = "admin", !.pc = "D_students"]]
    /\ UNCHANGED <<students, dailyEntries, adminData, tz, entries, student, dashStudents, out, returned, users, adminUsers, dialog, pending>>

\* const studentsSnapshot = await getDocs(studentsQuery)
AdminReadStudents(c) ==
    /\ calls[c].pc = "D_students"
    /\ calls' = [calls EXCEPT ![c].pc = "D_entries",
                   ![c].sdoc = MapSeq(SelectSeq(StudentIds, LAMBDA sid : students[sid] # <<>>),
                                      LAMBDA sid : students[sid][1])]
    /\ UNCHANGED <<students, dailyEntries, adminData, tz, entries, student, dashStudents, out, returned, users, adminUsers, dialog, pending>>

\* const entriesSnapshot = await getDocs(entriesQuery), and the computation of
\* the KPIs and of the at-risk list
AdminReadEntries(c) ==
    /\ calls[c].pc = "D_entries"
    /\ calls' = [calls EXCEPT ![c].pc = "D_users",
                   ![c].data = <<AdminDashboard(calls[c].sdoc,
                                                ReadEntries(Query(LAMBDA d : TRUE)))>>]
    /\ UNCHANGED <<students, dailyEntries, adminData, tz, entries, student, dashStudents, out, returned, users, adminUsers, dialog, pending>>

\* const usersSnapshot = await getDocs(usersQuery): the list it yields is copied
\* into adminData.students and is used by nothing else
AdminReadUsers(c) ==
    /\ calls[c].pc = "D_users"
    /\ calls' = [calls EXCEPT ![c].pc = "D_cache"]
    /\ UNCHANGED <<students, dailyEntries, adminData, tz, entries, student, dashStudents, out, returned, users, adminUsers, dialog, pending>>

\* await setDoc(doc(db, 'adminData', 'dashboard'), {...}); return adminData
AdminCache(c) ==
    /\ calls[c].pc = "D_cache"
    /\ adminData' = calls[c].data
    /\ calls' = [calls EXCEPT ![c] = IdleCall]
    /\ returned' = Outcome(calls[c], calls[c].data, "")
    /\ UNCHANGED <<students, dailyEntries, tz, entries, student, dashStudents, out, users, adminUsers, dialog, pending>>

\* the error a failure inside getStudentData reaches the caller with: its catch
\* throws 'Failed to fetch student data', and when addOrUpdateDailyEntry awaits
\* the call, the catch of addOrUpdateDailyEntry throws its own error instead
GetStudentDataError(call) ==
    IF call.op = "add" THEN "Failed to save daily entry" ELSE "Failed to fetch student data"

\* the store rejects the operation getStudentData awaits (getDoc, setDoc, getDocs
\* or updateDoc): catch (error) { ...; throw new Error('Failed to fetch student data') }
GetStudentDataFails(c) ==
    /\ calls[c].pc \in {"G_getDoc", "G_setDoc", "G_getDocs", "G_updateDoc"}
    /\ returned' = Outcome(calls[c], <<>>, GetStudentDataError(calls[c]))
    /\ calls' = [calls EXCEPT ![c] = IdleCall]
    /\ UNCHANGED <<students, dailyEntries, adminData, tz, entries, student, dashStudents, out, users, adminUsers, dialog, pending>>

\* the store rejects the getDocs or the updateDoc/addDoc of addOrUpdateDailyEntry:
\* catch (error) { ...; throw new Error('Failed to save daily entry') }
AddOrUpdateDailyEntryFails(c) ==
    /\ calls[c].pc \in {"A_query", "A_write"}
    /\ returned' = Outcome(calls[c], <<>>, "Failed to save daily entry")
    /\ calls' = [calls EXCEPT ![c] = IdleCall]
    /\ UNCHANGED <<students, dailyEntries, adminData, tz, entries, student, dashStudents, out, users, adminUsers, dialog, pending>>

\* fallbackData of getAdminDashboardData (avgReflectionDepth 3.5 in tenths)
FallbackData ==
    [kpis |-> [goalCompletion |-> 75, avgReflectionDepth |-> 35, avgTestPerformance |-> 80],
     atRiskStudents |-> <<>>]

\* the store rejects one of the three getDocs or the setDoc of
\* getAdminDashboardData: catch (error) { ...; return fallbackData }
GetAdminDashboardDataFails(c) ==
    /\ calls[c].pc \in {"D_students", "D_entries", "D_users", "D_cache"}
    /\ returned' = Outcome(calls[c], <<FallbackData>>, "")
    /\ calls' = [calls EXCEPT ![c] = IdleCall]
    /\ UNCHANGED <<students, dailyEntries, adminData, tz, entries, student, dashStudents, out, users, adminUsers, dialog, pending>>

----------------------------------------------------------------------------
(* removeUser and removeUserCompletely *)

Profile(role) == <<[role |-> role]>>

DeletionOptions ==
    [deleteAuthAccount : BOOLEAN, clearBrowserData : BOOLEAN, clearExternalData : BOOLEAN]

\* throw error: the call ends, rejected, and the collections stay as they are
Throws(c, error) ==
    /\ returned' = Outcome(calls[c], calls[c].steps, error)
    /\ calls' = [calls EXCEPT ![c] = IdleCall]

\* the call ends, resolved, after the steps done
Resolves(c, done) ==
    /\ returned' = Outcome(calls[c], done, "")
    /\ calls' = [calls EXCEPT ![c] = IdleCall]

\* where removeUserCompletely goes after a step: the next step its options ask for
AfterBrowser(options) == IF options.clearExternalData THEN "C_external" ELSE "done"
AfterAuth(options) == IF options.clearBrowserData THEN "C_browser" ELSE AfterBrowser(options)
AfterFirestore(options) == IF options.deleteAuthAccount THEN "C_auth" ELSE AfterAuth(options)

\* the call has done one more step and goes on at pc, or resolves when pc is "done"
Proceeds(c, step, pc) ==
    LET done == Append(calls[c].steps, step)
    IN  IF pc = "done" THEN Resolves(c, done)
        ELSE /\ calls' = [calls EXCEPT ![c].steps = done, ![c].pc = pc]
             /\ UNCHANGED returned

StartRemoveUser(c, userId, adminUserId) ==
    /\ CanStart(c)
    /\ calls' = [calls EXCEPT ![c] =
                   [IdleCall EXCEPT !.op = "removeUser", !.pc = "R_admin",
                                    !.studentId = userId, !.adminUserId = adminUserId]]
    /\ UNCHANGED <<students, dailyEntries, adminData, tz, entries, student, dashStudents, out,
                   returned, users, adminUsers, dialog, pending>>

\* removeUserCompletely starts with await removeUser(userId, adminUserId)
StartRemoveUserCompletely(c, userId, adminUserId, options) ==
    /\ CanStart(c)
    /\ calls' = [calls EXCEPT ![c] =
                   [IdleCall EXCEPT !.op = "removeUserCompletely", !.pc = "R_admin",
                                    !.studentId = userId, !.adminUserId = adminUserId,
                                    !.options = options]]
    /\ UNCHANGED <<students, dailyEntries, adminData, tz, entries, student, dashStudents, out,
                   returned, users, adminUsers, dialog, pending>>

\* const adminProfile = await getUserProfile(adminUserId), and the check of it
RemoveReadAdmin(c) ==
    /\ calls[c].pc = "R_admin"
    /\ LET adminProfile == users[calls[c].adminUserId]
       IN  IF adminProfile = <<>> \/ adminProfile[1].role # "admin"
           THEN Throws(c, "Unauthorized: Only admins can remove users")
           ELSE /\ calls' = [calls EXCEPT ![c].pc = "R_user"]
                /\ UNCHANGED returned
    /\ UNCHANGED <<students, dailyEntries, adminData, tz, entries, student, dashStudents, out,
                   users, adminUsers, dialog, pending>>

\* the step without the check of the role of the user to remove
RemoveReadUser_anyRole(c) ==
    /\ calls[c].pc = "R_user"
    /\ LET userProfile == users[calls[c].studentId]
       IN  IF userProfile = <<>> THEN Throws(c, "User not found")
           ELSE IF calls[c].studentId = calls[c].adminUserId
                THEN Throws(c, "Cannot remove your own admin account")
                ELSE /\ calls' = [calls EXCEPT ![c].pc = "R_query"]
                     /\ UNCHANGED returned
    /\ UNCHANGED <<students, dailyEntries, adminData, tz, entries, student, dashStudents, out,
                   users, adminUsers, dialog, pending>>

\* const userProfile = await getUserProfile(userId), and the three checks
RemoveReadUser(c) ==
    /\ calls[c].pc = "R_user"
    /\ LET userProfile == users[calls[c].studentId]
       IN  IF userProfile = <<>> THEN Throws(c, "User not found")
           ELSE IF calls[c].studentId = calls[c].adminUserId
                THEN Throws(c, "Cannot remove your own admin account")
                ELSE IF userProfile[1].role = "admin"
                     THEN Throws(c, "Cannot remove other admin users")
                     ELSE /\ calls' = [calls EXCEPT ![c].pc = "R_query"]
                          /\ UNCHANGED returned
    /\ UNCHANGED <<students, dailyEntries, adminData, tz, entries, student, dashStudents, out,
                   users, adminUsers, dialog, pending>>

\* const entriesSnapshot = await getDocs(query(..., where('userId', '==', userId))):
\* the documents that have a field userId with that value
RemoveQuery(c) ==
    /\ calls[c].pc = "R_query"
    /\ calls' = [calls EXCEPT ![c].pc = "R_delete",
                   ![c].found = Query(LAMBDA d : /\ "userId" \in DOMAIN d
                                                 /\ d["userId"] = calls[c].studentId)]
    /\ UNCHANGED <<students, dailyEntries, adminData, tz, entries, student, dashStudents, out,
                   returned, users, adminUsers, dialog, pending>>

\* await Promise.all(deletionPromises): the entries found, students/userId,
\* users/userId and adminUsers/userId; removeUser returns, removeUserCompletely
\* goes on with the steps its options ask for
RemoveDelete(c) ==
    /\ calls[c].pc = "R_delete"
    /\ LET userId == calls[c].studentId
       IN  /\ dailyEntries' = [id \in DocIds |->
                                 IF id \in Range(calls[c].found) THEN <<>> ELSE dailyEntries[id]]
           /\ students' = [sid \in Sids |-> IF sid = userId THEN <<>> ELSE students[sid]]
           /\ users' = [users EXCEPT ![userId] = <<>>]
           /\ adminUsers' = adminUsers \ {userId}
    /\ Proceeds(c, "firestore",
                IF calls[c].op = "removeUser" THEN "done" ELSE AfterFirestore(calls[c].options))
    /\ UNCHANGED <<adminData, tz, entries, student, dashStudents, out, dialog, pending>>

\* if (deleteAuthAccount): auth.currentUser is the administrator or the user; only
\* the account of currentUser can be deleted, anything else throws, and
\* deleteUser itself may reject
RemoveAuth(c) ==
    /\ calls[c].pc = "C_auth"
    /\ \E currentUser \in {calls[c].adminUserId, calls[c].studentId} :
       \E accepted \in BOOLEAN :
          IF currentUser = calls[c].studentId /\ accepted
          THEN Proceeds(c, "auth", AfterAuth(calls[c].options))
          ELSE Throws(c, "Failed to delete authentication account")
    /\ UNCHANGED <<students, dailyEntries, adminData, tz, entries, student, dashStudents, out,
                   users, adminUsers, dialog, pending>>

\* if (shouldClearBrowser) await clearBrowserData(userId), which rethrows what
\* the storage throws
RemoveBrowser(c) ==
    /\ calls[c].pc = "C_browser"
    /\ \E cleared \in BOOLEAN :
          IF cleared THEN Proceeds(c, "browser", AfterBrowser(calls[c].options))
          ELSE Throws(c, "Error clearing browser data")
    /\ UNCHANGED <<students, dailyEntries, adminData, tz, entries, student, dashStudents, out,
                   users, adminUsers, dialog, pending>>

\* if (shouldClearExternal) await clearExternalData(userId), which only logs
RemoveExternal(c) ==
    /\ calls[c].pc = "C_external"
    /\ Proceeds(c, "external", "done")
    /\ UNCHANGED <<students, dailyEntries, adminData, tz, entries, student, dashStudents, out,
                   users, adminUsers, dialog, pending>>

----------------------------------------------------------------------------
(* StudentsList and its UserDeletionModal *)

\* the students prop: the ids of the rows
ListedStudents == Sids

\* isDeleting={removingUserId === showDeletionModal.userId}, of a rendered modal
IsDeleting == dialog.showDeletionModal # <<>> /\ dialog.removingUserId = dialog.showDeletionModal

\* setShowDeletionModal(null): the modal unmounts and its options state is gone
ModalClosed(d) ==
    [d EXCEPT !.showDeletionModal = <<>>, !.deletionOptions = ClosedDialog.deletionOptions]

\* the remove button of a row, disabled={removingUserId === student.id}:
\* handleRemoveUser sets showDeletionModal; a modal already shown stays mounted
HandleRemoveUser(userId) ==
    /\ dialog.removingUserId # <<userId>>
    /\ dialog' = [dialog EXCEPT !.showDeletionModal = <<userId>>]
    /\ UNCHANGED <<pureVars, students, dailyEntries, adminData, calls, returned, users,
                   adminUsers, pending>>

\* a checkbox of the modal: setDeletionOptions(prev => ({...prev, [option]: checked}))
ToggleOption(option) ==
    /\ dialog.showDeletionModal # <<>>
    /\ dialog' = [dialog EXCEPT !.deletionOptions[option] = ~@]
    /\ UNCHANGED <<pureVars, students, dailyEntries, adminData, calls, returned, users,
                   adminUsers, pending>>

\* the Delete button, disabled={isDeleting}: handleConfirm calls confirmRemoveUser,
\* which sets removingUserId and awaits removeUserCompletely(userId, options)
HandleConfirm ==
    /\ dialog.showDeletionModal # <<>>
    /\ ~IsDeleting
    /\ Len(pending) < MaxPending
    /\ dialog' = [dialog EXCEPT !.removingUserId = dialog.showDeletionModal]
    /\ pending' = Append(pending, [userId |-> dialog.showDeletionModal[1],
                                    options |-> dialog.deletionOptions])
    /\ UNCHANGED <<pureVars, students, dailyEntries, adminData, calls, returned, users,
                   adminUsers>>

\* the Cancel button, disabled={isDeleting}: cancelRemove
CancelRemove ==
    /\ dialog.showDeletionModal # <<>>
    /\ ~IsDeleting
    /\ dialog' = ModalClosed(dialog)
    /\ UNCHANGED <<pureVars, students, dailyEntries, adminData, calls, returned, users,
                   adminUsers, pending>>

\* the sequence without its element i
Without(s, i) == SubSeq(s, 1, i - 1) \o SubSeq(s, i + 1, Len(s))

\* the awaited call resolves: setShowDeletionModal(null), finally setRemovingUserId(null)
RemovalResolves(i) ==
    /\ i \in 1..Len(pending)
    /\ pending' = Without(pending, i)
    /\ dialog' = [ModalClosed(dialog) EXCEPT !.removingUserId = <<>>]
    /\ UNCHANGED <<pureVars, students, dailyEntries, adminData, calls, returned, users,
                   adminUsers>>

\* the awaited call rejects: catch alerts, finally setRemovingUserId(null)
RemovalRejects(i) ==
    /\ i \in 1..Len(pending)
    /\ pending' = Without(pending, i)
    /\ dialog' = [dialog EXCEPT !.removingUserId = <<>>]
    /\ UNCHANGED <<pureVars, students, dailyEntries, adminData, calls, returned, users,
                   adminUsers>>

----------------------------------------------------------------------------
(* The aggregation functions applied to bounded inputs *)

TzOffsets == {-1, 0, 1}

\* the input entries of the calendar family: two on UTC day NowDay, one on each
\* of the two days before it, and two from long ago
CalendarEntries ==
    {Entry(At(NowDay, 0), GoalDone, Absent, Absent),
     Entry(At(NowDay, TicksPerDay - 1), GoalDone, Absent, Absent),
     Entry(At(NowDay, TicksPerDay - 1), Absent, Absent, Absent),
     Entry(At(NowDay - 1, TicksPerDay - 1), GoalDone, Absent, Absent),
     Entry(At(NowDay - 2, TicksPerDay - 1), GoalDone, Absent, Absent),
     Entry(At(NowDay - 90, 0), GoalDone, Absent, Absent),
     Entry(At(NowDay - 90, 0), Absent, Absent, Absent)}

\* the input entries of the activity family
ActivityEntries ==
    {Entry(At(NowDay, 0), Absent, Reflection(3), Quiz(1, 2)),
     Entry(At(NowDay, 0), Absent, Reflection(4), Absent),
     Entry(At(NowDay, 0), Absent, Reflection(5), Absent),
     Entry(At(NowDay, 0), Absent, Absent, Quiz(17, 20)),
     Entry(At(NowDay, 0), Absent, Absent, Quiz(19, 20))}

\* the input entries of the trend family: records in the last 7 days (one of them
\* a quiz without a correct answer), in the 7 days before them, and on the two
\* days around the start of the last 14 days
TrendEntries ==
    {Entry(At(NowDay, 0), GoalDone, Absent, Absent),
     Entry(At(NowDay - 1, 0), Absent, Absent, Quiz(0, 2)),
     Entry(At(NowDay - 3, 0), Absent, Reflection(2), Absent),
     Entry(At(NowDay - 7, 0), GoalOpen, Absent, Absent),
     Entry(At(NowDay - 14, 0), GoalOpen, Absent, Absent),
     Entry(At(NowDay - 16, 0), GoalDone, Absent, Absent)}

SeqsUpTo(S, n) == UNION {[1..k -> S] : k \in 0..n}

\* PadLen active entries on distinct days between 40 and 40 + PadLen days ago
PadBlock == [k \in 1..PadLen |-> Entry(At(NowDay - 40 - k, 0), GoalDone, Absent, Absent)]

NoStudent == [streak |-> 0, consistencyScore |-> 0, badges |-> <<>>]

BadgeLists ==
    {<<>>, <<"streak-7", "consistency-90", "streak-7">>, <<"quiz-whiz", "consistency-90">>,
     <<"perfect-week", "deep-thinker">>}

NoResult ==
    [kind |-> "none", consistencyScore |-> 0, streak |-> 0,
     metrics |-> EmptyMetrics, badges |-> <<>>]

PureInit ==
    /\ StoreInit
    /\ out = NoResult
    /\ dashStudents = <<>>
    /\ \/ /\ tz \in TzOffsets
          /\ student = NoStudent
          /\ entries \in SeqsUpTo(CalendarEntries, MaxLen)
       \/ /\ tz = 0
          /\ student = NoStudent
          /\ \E v \in SeqsUpTo(CalendarEntries, MaxLen) : entries = v \o PadBlock
       \/ /\ tz = 0
          /\ student = NoStudent
          /\ entries \in SeqsUpTo(TrendEntries, MaxLen)
       \/ /\ tz = 0
          /\ \E level \in {<<0, 0>>, <<StreakBadgeMin, 0>>, <<0, ConsistencyBadgeMin>>} :
                \E held \in BadgeLists :
                    student = [streak |-> level[1], consistencyScore |-> level[2],
                               badges |-> held]
          /\ entries \in SeqsUpTo(ActivityEntries, MaxLen)

ResultCS(es) ==
    LET r == calculateConsistencyAndStreak(es)
    IN  [NoResult EXCEPT !.kind = "cs", !.consistencyScore = r.consistencyScore,
                         !.streak = r.streak]

ResultDE(es) == [NoResult EXCEPT !.kind = "de", !.metrics = calculateDailyEngagement(es)]

CallConsistencyAndStreak ==
    /\ out' = ResultCS(entries)
    /\ UNCHANGED <<tz, entries, student, dashStudents>>
    /\ UNCHANGED storeVars

CallDailyEngagement ==
    /\ out' = ResultDE(entries)
    /\ UNCHANGED <<tz, entries, student, dashStudents>>
    /\ UNCHANGED storeVars

CallCheckAndAwardBadges ==
    /\ out' = [NoResult EXCEPT !.kind = "badges",
                  !.badges = checkAndAwardBadges(student, entries)]
    /\ UNCHANGED <<tz, entries, student, dashStudents>>
    /\ UNCHANGED storeVars

\* checkAndAwardBadges called again on the student it returned
CallCheckAndAwardBadgesAgain ==
    /\ out.kind = "badges"
    /\ student' = [student EXCEPT !.badges = out.badges]
    /\ out' = [out EXCEPT !.kind = "badges2",
                          !.badges = checkAndAwardBadges(student', entries)]
    /\ UNCHANGED <<tz, entries, dashStudents>>
    /\ UNCHANGED storeVars

Swap(s, i) == [s EXCEPT ![i] = s[i + 1], ![i + 1] = s[i]]

\* the caller passes the same records in another order and calls again
CallReordered ==
    /\ out.kind \in {"cs", "de"}
    /\ Len(entries) <= MaxLen
    /\ \E i \in 1..(Len(entries) - 1) : entries' = Swap(entries, i)
    /\ out' = IF out.kind = "cs" THEN ResultCS(entries') ELSE ResultDE(entries')
    /\ UNCHANGED <<tz, student, dashStudents>>
    /\ UNCHANGED storeVars

PureNext ==
    \/ CallConsistencyAndStreak
    \/ CallDailyEngagement
    \/ CallCheckAndAwardBadges
    \/ CallCheckAndAwardBadgesAgain
    \/ CallReordered

SpecPure == PureInit /\ [][PureNext]_vars

----------------------------------------------------------------------------
(* The dashboard computation applied to bounded inputs *)

\* document ids of students in the order the store returns them; all but SidU
\* and the last occur in the text of some date of DashEntries
RosterIds ==
    <<SidD, SidU, <<"1", "0">>, <<"0">>, <<"1">>, <<"T">>, <<"0", "T">>, <<"9">>,
      <<"T", "0">>, <<"x">>>>

DashEntries ==
    {Entry(At(NowDay, 0), GoalOpen, Reflection(3), Quiz(1, 2)),
     Entry(At(NowDay - 1, 0), GoalOpen, Absent, Absent)}

\* a students document with a given consistencyScore
StudentRow(sid, score) == StudentDoc([NewStudent(sid) EXCEPT !.consistencyScore = score])

DashInit ==
    /\ StoreInit
    /\ tz = 0
    /\ student = NoStudent
    /\ out = NoResult
    /\ entries \in SeqsUpTo(DashEntries, MaxLen)
    /\ \E k \in 0..MaxStudents :
          \E score \in [1..k -> {AtRiskMinConsistency - 1, AtRiskMinConsistency}] :
              dashStudents = [i \in 1..k |-> StudentRow(RosterIds[i], score[i])]

\* the computation of getAdminDashboardData on the two snapshots
CallAdminDashboard ==
    /\ out' = [kind |-> "dash", dashboard |-> AdminDashboard(dashStudents, entries)]
    /\ UNCHANGED <<tz, entries, student, dashStudents>>
    /\ UNCHANGED storeVars

DashNext == CallAdminDashboard

SpecDash == DashInit /\ [][DashNext]_vars

----------------------------------------------------------------------------
(* The EngagementAnalytics component, evaluated on bounded props *)

\* date.getDay(): the day of the week of the local calendar day
DayOfWeek(t) == LocalDay(t) % 7

\* the keys of weeklyActivity in the order the reduce creates them
RECURSIVE WeekDaysFrom(_, _, _)
WeekDaysFrom(s, i, acc) ==
    IF i > Len(s) THEN acc
    ELSE WeekDaysFrom(s, i + 1,
                      IF DayOfWeek(s[i].date) \in Range(acc) THEN acc
                      ELSE Append(acc, DayOfWeek(s[i].date)))

\* Object.entries(weeklyActivity): a day of the week and the number of entries on it
WeeklyActivity(sortedEntries) ==
    LET keys == WeekDaysFrom(sortedEntries, 1, <<>>)
    IN  [k \in 1..Len(keys) |->
            [day |-> keys[k],
             count |-> CountIdx(sortedEntries, LAMBDA e : DayOfWeek(e.date) = keys[k])]]

\* .reduce((a, b) => weeklyActivity[a[0]] > weeklyActivity[b[0]] ? a : b) from
\* the accumulator a on
RECURSIVE MostActiveFrom(_, _, _)
MostActiveFrom(pairs, i, a) ==
    IF i > Len(pairs) THEN a
    ELSE MostActiveFrom(pairs, i + 1, IF a.count > pairs[i].count THEN a ELSE pairs[i])

\* engagementScore without student.dailyEngagement: Math.min(100, Math.round(
\* goals * 0.3 + reflections * 0.4 + quizzes * 0.2 + completed / max(goals, 1) * 0.1 * 100)),
\* with the sum taken exactly (the doubles differ from it by less than 1e-14)
FallbackScore(es) ==
    LET daysWithGoals == CountIdx(es, LAMBDA e : e.goal # Absent)
        daysWithReflections == CountIdx(es, LAMBDA e : e.reflection # Absent)
        daysWithQuizzes == CountIdx(es, LAMBDA e : e.quizEvaluation # Absent)
        completedGoals == CountIdx(es, LAMBDA e : e.goal # Absent /\ e.goal[1].completed)
        goals == IF daysWithGoals > 1 THEN daysWithGoals ELSE 1
    IN  Min(100, JsRound((3 * daysWithGoals + 4 * daysWithReflections + 2 * daysWithQuizzes) * goals
                            + 100 * completedGoals,
                         10 * goals))

\* the render of EngagementAnalytics: the score and the most active day it shows,
\* or the TypeError of a reduce of an empty array without an initial value.
\* dailyEngagement is student.dailyEngagement, if the student has it
EngagementAnalytics(dailyEngagement, es) ==
    LET weeklyActivity == WeeklyActivity(SortAsc(es))
        engagementScore == IF dailyEngagement # Absent
                           THEN JsRound(dailyEngagement[1].averageDaily, 10)
                           ELSE FallbackScore(es)
    IN  IF weeklyActivity = <<>>
        THEN [kind |-> "analytics", threw |-> TRUE, engagementScore |-> <<>>,
              mostActiveDay |-> <<>>]
        ELSE [kind |-> "analytics", threw |-> FALSE, engagementScore |-> <<engagementScore>>,
              mostActiveDay |-> <<MostActiveFrom(weeklyActivity, 2, weeklyActivity[1]).day>>]

\* the entries prop
AnalyticsEntries ==
    {Entry(At(NowDay, 0), GoalOpen, Reflection(3), Quiz(1, 2)),
     Entry(At(NowDay - 1, 0), GoalDone, Absent, Absent),
     Entry(At(NowDay - 8, TicksPerDay - 1), Absent, Reflection(5), Absent),
     Entry(At(NowDay - 2, 0), Absent, Absent, Absent)}

AnalyticsInit ==
    /\ StoreInit
    /\ out = NoResult
    /\ dashStudents = <<>>
    /\ student = NoStudent
    /\ tz \in TzOffsets
    /\ entries \in SeqsUpTo(AnalyticsEntries, MaxLen)

\* rendered for a student loaded by getStudentData, who has dailyEngagement
RenderWithMetrics ==
    /\ out' = EngagementAnalytics(<<calculateDailyEngagement(entries)>>, entries)
    /\ UNCHANGED <<tz, entries, student, dashStudents>>
    /\ UNCHANGED storeVars

\* rendered for a student without dailyEngagement (a newly created one)
RenderWithoutMetrics ==
    /\ out' = EngagementAnalytics(Absent, entries)
    /\ UNCHANGED <<tz, entries, student, dashStudents>>
    /\ UNCHANGED storeVars

AnalyticsNext == RenderWithMetrics \/ RenderWithoutMetrics

SpecAnalytics == AnalyticsInit /\ [][AnalyticsNext]_vars

----------------------------------------------------------------------------
(* The service calls, interleaved at their awaits *)

Init ==
    /\ StoreInit
    /\ tz = 0
    /\ entries = <<>>
    /\ student = NoStudent
    /\ dashStudents = <<>>
    /\ out = NoResult

Next ==
    \/ \E c \in Callers : StartGetStudentData(c, SidU)
    \/ \E c \in Callers : StartAddOrUpdateDailyEntry(c, SidU)
    \/ \E c \in Callers : AddQuery(c)
    \/ \E c \in Callers : AddWrite(c)
    \/ \E c \in Callers : GetDoc(c)
    \/ \E c \in Callers : CreateStudent(c)
    \/ \E c \in Callers : GetDocs(c)
    \/ \E c \in Callers : UpdateStudent(c)

Spec == Init /\ [][Next]_vars

\* one caller saving entries (each save ends in getStudentData) and an
\* administrator loading the dashboard
AdminNext ==
    \/ \E sid \in Sids : StartAddOrUpdateDailyEntry(1, sid)
    \/ AddQuery(1)
    \/ AddWrite(1)
    \/ GetDoc(1)
    \/ CreateStudent(1)
    \/ GetDocs(1)
    \/ UpdateStudent(1)
    \/ StartGetAdminDashboardData(NumCallers)
    \/ AdminReadStudents(NumCallers)
    \/ AdminReadEntries(NumCallers)
    \/ AdminReadUsers(NumCallers)
    \/ AdminCache(NumCallers)

SpecAdmin == Init /\ [][AdminNext]_vars

\* a student reading and saving, an administrator loading the dashboard, and a
\* store that may reject any operation a call awaits
FaultNext ==
    \/ StartGetStudentData(1, SidU)
    \/ StartAddOrUpdateDailyEntry(1, SidU)
    \/ AddQuery(1)
    \/ AddWrite(1)
    \/ GetDoc(1)
    \/ CreateStudent(1)
    \/ GetDocs(1)
    \/ UpdateStudent(1)
    \/ StartGetAdminDashboardData(NumCallers)
    \/ AdminReadStudents(NumCallers)
    \/ AdminReadEntries(NumCallers)
    \/ AdminReadUsers(NumCallers)
    \/ AdminCache(NumCallers)
    \/ GetStudentDataFails(1)
    \/ AddOrUpdateDailyEntryFails(1)
    \/ GetAdminDashboardDataFails(NumCallers)

SpecFaults == Init /\ [][FaultNext]_vars

\* the profiles createUserProfile has stored: two administrators, who also have
\* an adminUsers document, and a student; SidD has no profile
RemoveInit ==
    /\ EmptyStore
    /\ users = [uid \in Uids |->
                  IF uid \in {AdminA, AdminB} THEN Profile("admin")
                  ELSE IF uid = SidU THEN Profile("student") ELSE <<>>]
    /\ adminUsers = {AdminA, AdminB}
    /\ tz = 0
    /\ entries = <<>>
    /\ student = NoStudent
    /\ dashStudents = <<>>
    /\ out = NoResult

\* the (userId, adminUserId) arguments the clients pass: a student removed by an
\* administrator, by the student, or by a caller without a profile; an
\* administrator removed by another or by themselves; a user without a profile
RemovalRequests ==
    {<<SidU, AdminA>>, <<SidU, SidU>>, <<SidU, SidD>>, <<AdminB, AdminA>>,
     <<AdminA, AdminA>>, <<SidD, AdminA>>}

\* a student saving entries while a second administrator calls removeUser, and
\* a client calling removeUser with any of the requests and removeUserCompletely
\* for a student and for an administrator
RemoveNext ==
    \/ StartAddOrUpdateDailyEntry(1, SidU)
    \/ AddQuery(1)
    \/ AddWrite(1)
    \/ GetDoc(1)
    \/ CreateStudent(1)
    \/ GetDocs(1)
    \/ UpdateStudent(1)
    \/ StartRemoveUser(1, SidU, AdminB)
    \/ \E r \in RemovalRequests : StartRemoveUser(NumCallers, r[1], r[2])
    \/ \E r \in {<<SidU, AdminA>>, <<AdminB, AdminA>>} : \E options \in DeletionOptions :
          StartRemoveUserCompletely(NumCallers, r[1], r[2], options)
    \/ \E c \in {1, NumCallers} : RemoveReadAdmin(c)
    \/ \E c \in {1, NumCallers} : RemoveReadUser(c)
    \/ \E c \in {1, NumCallers} : RemoveQuery(c)
    \/ \E c \in {1, NumCallers} : RemoveDelete(c)
    \/ RemoveAuth(NumCallers)
    \/ RemoveBrowser(NumCallers)
    \/ RemoveExternal(NumCallers)

SpecRemove == RemoveInit /\ [][RemoveNext]_vars

\* an administrator clicking in the students list while removals complete
DialogNext ==
    \/ \E userId \in ListedStudents : HandleRemoveUser(userId)
    \/ \E option \in DOMAIN NoOptions : ToggleOption(option)
    \/ HandleConfirm
    \/ CancelRemove
    \/ \E i \in 1..MaxPending : RemovalResolves(i)
    \/ \E i \in 1..MaxPending : RemovalRejects(i)

SpecDialog == Init /\ [][DialogNext]_vars

----------------------------------------------------------------------------
(* Claims about the aggregation functions, checked under SpecPure *)

\* C1: every badge id of the input badge list is in the list checkAndAwardBadges
\* returns, whether or not the current data would award it.
C1_BadgesMonotonic ==
    out.kind = "badges" => Range(student.badges) \subseteq Range(out.badges)

\* a call that kept streak-7 for a student whose streak is below 7
C1_Witness ==
    /\ out.kind = "badges"
    /\ "streak-7" \in Range(student.badges)
    /\ student.streak < StreakBadgeMin
    /\ "streak-7" \in Range(out.badges)

RecordsOn(es, day) == {i \in 1..Len(es) : LocalDay(es[i].date) = day}

\* C4: calculateDailyEngagement returns, for every record list including the empty
\* one, exactly 30 entries, entry i for calendar day today-29+(i-1), oldest first
\* and today last, with score 0 on days without a record.
C4_ThirtyDaysForEveryInput ==
    out.kind = "de" =>
        LET de == out.metrics.dailyEngagement
        IN  /\ Len(de) = 30
            /\ \A i \in 1..Len(de) :
                  /\ de[i].date = Today - (30 - i)
                  /\ RecordsOn(entries, Today - (30 - i)) = {} => de[i].engagementScore = 0

ActiveOn(es, day) == \E i \in RecordsOn(es, day) : IsActive(es[i])

\* the largest k such that every one of the k days today, today-1, ..., today-(k-1)
\* has an active record
ConsecutiveActiveDays(es) ==
    CHOOSE k \in 0..Len(es) :
        /\ \A i \in 0..(k - 1) : ActiveOn(es, Today - i)
        /\ ~ActiveOn(es, Today - k)

\* C5: the streak calculateConsistencyAndStreak returns is the number of
\* consecutive calendar days, counted back from today, that have an active record
\* in the list, whatever else the list contains.
C5_StreakIsConsecutiveActiveDays ==
    out.kind = "cs" => out.streak = ConsecutiveActiveDays(entries)

\* The records that belong to the w latest whatever the order among equal dates
\* (SureIn), and those that may belong to them (MayBeIn).
SureIn(es, w) ==
    {i \in 1..Len(es) : Cardinality({j \in 1..Len(es) : es[j].date >= es[i].date}) <= w}
MayBeIn(es, w) ==
    {i \in 1..Len(es) : Cardinality({j \in 1..Len(es) : es[j].date > es[i].date}) < w}
ActiveAmong(es, I) == Cardinality({i \in I : IsActive(es[i])})

\* the values a = "active records among the w latest" can take
ActiveInWindow(es, w) ==
    LET free == w - Cardinality(SureIn(es, w))
        tied == MayBeIn(es, w) \ SureIn(es, w)
        tiedActive == ActiveAmong(es, tied)
        lo == IF free > Cardinality(tied) - tiedActive
              THEN free - (Cardinality(tied) - tiedActive) ELSE 0
    IN  {ActiveAmong(es, SureIn(es, w)) + x : x \in lo..Min(free, tiedActive)}

\* C6: consistencyScore = round(100 * a / w) with w = min(30, number of records)
\* and a the number of active records among the w records with the latest dates;
\* it is 0 for the empty list and an integer in 0..100.
C6_ConsistencyScore ==
    out.kind = "cs" =>
        LET w == Min(30, Len(entries))
        IN  /\ out.consistencyScore \in 0..100
            /\ Len(entries) = 0 => out.consistencyScore = 0
            /\ Len(entries) > 0 =>
                  \E a \in ActiveInWindow(entries, w) :
                      /\ 2 * (w * out.consistencyScore - 100 * a) <= w
                      /\ 2 * (100 * a - w * out.consistencyScore) < w

\* more than 30 records, the oldest of them inactive and outside the window
C6_Witness ==
    /\ out.kind = "cs"
    /\ Len(entries) > WindowSize
    /\ \E i \in 1..Len(entries) : ~IsActive(entries[i])
    /\ out.consistencyScore = 100

SameRecords(a, b) ==
    /\ Len(a) = Len(b)
    /\ \A x \in Range(a) \cup Range(b) :
          Cardinality({i \in 1..Len(a) : a[i] = x}) = Cardinality({i \in 1..Len(b) : b[i] = x})

\* C7: consistencyScore, streak and the engagement metrics depend only on the
\* multiset of records: calling again with the same records in another order
\* returns the same result.
C7_OrderIndependent ==
    [][(out.kind \in {"cs", "de"} /\ out'.kind = out.kind /\ SameRecords(entries, entries'))
          => out' = out]_vars

\* the depths of the reflections of the list, in list order
Depths == MapSeq(SelectSeq(entries, LAMBDA e : e.reflection # Absent),
                 LAMBDA e : e.reflection[1].depth)

\* C15: checkAndAwardBadges adds 'deep-thinker' to a student who does not hold it
\* exactly when the records hold more than 2 reflections whose average depth is
\* >= 4.
C15_DeepThinkerExactly ==
    (out.kind = "badges" /\ "deep-thinker" \notin Range(student.badges)) =>
        ("deep-thinker" \in Range(out.badges)
            <=> (Len(Depths) > 2 /\ SumSeq(Depths) >= 4 * Len(Depths)))

\* depths 4, 4 and 5, in some order, award the badge
C15_Witness ==
    /\ out.kind = "badges"
    /\ "deep-thinker" \notin Range(student.badges)
    /\ Len(Depths) = 3
    /\ SumSeq(Depths) = 13
    /\ \A k \in 1..3 : Depths[k] >= 4
    /\ "deep-thinker" \in Range(out.badges)

\* score/total of the quizzes of the list in hundredths; the totals of the input
\* families divide 100
Ratios == MapSeq(SelectSeq(entries, LAMBDA e : e.quizEvaluation # Absent),
                 LAMBDA e : e.quizEvaluation[1].score * (100 \div e.quizEvaluation[1].total))

\* C16: checkAndAwardBadges adds 'quiz-whiz' to a student who does not hold it
\* exactly when the records hold at least one quiz and the mean of score/total
\* over the quizzes is >= 0.90.
C16_QuizWhizExactly ==
    (out.kind = "badges" /\ "quiz-whiz" \notin Range(student.badges)) =>
        ("quiz-whiz" \in Range(out.badges)
            <=> (Len(Ratios) > 0 /\ SumSeq(Ratios) >= 90 * Len(Ratios)))

NoDuplicates(s) == \A i, j \in 1..Len(s) : s[i] = s[j] => i = j

\* C17: checkAndAwardBadges applied to the student it returned returns the same
\* badge set again, and a returned list holds each badge id at most once.
C17_AwardingIdempotent ==
    /\ out.kind \in {"badges", "badges2"} => NoDuplicates(out.badges)
    /\ out.kind = "badges2" => Range(out.badges) = Range(student.badges)

\* a second call on a student who holds three badges or more
C17_Witness ==
    /\ out.kind = "badges2"
    /\ Len(out.badges) >= 3
    /\ "quiz-whiz" \in Range(out.badges)

\* the list holds a completed goal on each of the 7 local days ending on lastDay
SevenCompletedDays(lastDay) ==
    \A k \in 0..6 :
        \E i \in 1..Len(entries) :
            /\ LocalDay(entries[i].date) = lastDay - k
            /\ entries[i].goal # Absent
            /\ entries[i].goal[1].completed

\* C18: checkAndAwardBadges never adds 'perfect-week': when the input badges do
\* not hold it the output does not hold it, whatever the records are.
C18_PerfectWeekNeverAwarded ==
    (out.kind \in {"badges", "badges2"} /\ "perfect-week" \notin Range(student.badges))
        => "perfect-week" \notin Range(out.badges)

\* a call on records with 7 consecutive days of completed goals
C18_Witness ==
    /\ out.kind = "badges"
    /\ \E d \in (NowDay - 100)..NowDay : SevenCompletedDays(d)
    /\ "perfect-week" \notin Range(out.badges)

\* the points the formula gives a record, with round(25*score/total) taken as the
\* least (Lo) or the greatest (Hi) integer within 1/2 of 25*score/total
FormulaPoints(e, quizPoints) ==
    (IF e.goal = Absent THEN 0 ELSE 30 + (IF e.goal[1].completed THEN 10 ELSE 0))
      + (IF e.reflection = Absent THEN 0
         ELSE 10 * e.reflection[1].depth + (IF e.reflection[1].depth >= 4 THEN 5 ELSE 0))
      + (IF e.quizEvaluation = Absent THEN 0
         ELSE quizPoints + (IF 10 * e.quizEvaluation[1].score >= 9 * e.quizEvaluation[1].total
                            THEN 5 ELSE 0))
FormulaPointsLo(e) ==
    FormulaPoints(e, IF e.quizEvaluation = Absent THEN 0
                     ELSE LET q == e.quizEvaluation[1]
                          IN  0 - ((q.total - 50 * q.score) \div (2 * q.total)))
FormulaPointsHi(e) ==
    FormulaPoints(e, IF e.quizEvaluation = Absent THEN 0
                     ELSE LET q == e.quizEvaluation[1]
                          IN  (50 * q.score + q.total) \div (2 * q.total))

\* the records of the list whose local calendar day is the day of entry i
RecordsOfEntry(i) ==
    SelectSeq(entries, LAMBDA e : LocalDay(e.date) = Today - (30 - i))

\* C13: the engagementScore of each day is min(100, sum over the records of that
\* day of 30 (+10 if completed) for a goal, 10*depth (+5 if depth >= 4) for a
\* reflection, round(25*score/total) (+5 if score/total >= 0.90) for a quiz); it
\* is in 0..100 and the records of one day are summed before the cap.
C13_EngagementScoreFormula ==
    out.kind = "de" =>
        \A i \in 1..Len(out.metrics.dailyEngagement) :
            LET score == out.metrics.dailyEngagement[i].engagementScore
                lo == SumSeq(MapSeq(RecordsOfEntry(i), FormulaPointsLo))
                hi == SumSeq(MapSeq(RecordsOfEntry(i), FormulaPointsHi))
            IN  /\ score \in 0..100
                /\ Min(100, lo) <= score
                /\ score <= Min(100, hi)

\* today has a reflection of depth 4 or more and two more records, together worth
\* more than 100 points, and today's score is 100
C13_Witness ==
    /\ out.kind = "de"
    /\ Len(out.metrics.dailyEngagement) = 30
    /\ Len(RecordsOfEntry(30)) >= 3
    /\ \E k \in 1..Len(RecordsOfEntry(30)) :
          /\ RecordsOfEntry(30)[k].reflection # Absent
          /\ RecordsOfEntry(30)[k].reflection[1].depth >= 4
    /\ \E k \in 1..Len(RecordsOfEntry(30)) : RecordsOfEntry(30)[k].quizEvaluation # Absent
    /\ SumSeq(MapSeq(RecordsOfEntry(30), FormulaPointsLo)) > 100
    /\ out.metrics.dailyEngagement[30].engagementScore = 100

\* the sum of the scores of days from..to of the returned 30-day window
WindowSum(from, to) ==
    SumSeq([k \in 1..(to - from + 1) |-> out.metrics.dailyEngagement[from + k - 1].engagementScore])

\* trend (in tenths) is 0 when the prior sum is 0 and otherwise within 1/2 tenth of
\* (recent - prior) / prior * 100; the two periods are equally long, so the sums
\* stand for the averages
TrendIs(trend, recent, prior) ==
    IF prior = 0 THEN trend = 0
    ELSE /\ 2 * (trend * prior - 1000 * (recent - prior)) <= prior
         /\ 2 * (1000 * (recent - prior) - trend * prior) <= prior

\* C14 (as stated): weeklyTrend is 0 whenever the scores of days 15..21 of the
\* window sum to 0 and monthlyTrend is 0 whenever the scores of the 14 days before
\* the last 14 sum to 0; otherwise each is the relative change of the averages in
\* percent, rounded to one decimal.
C14_TrendsGuarded_Days15To21 ==
    (out.kind = "de" /\ Len(out.metrics.dailyEngagement) = 30) =>
        /\ TrendIs(out.metrics.weeklyTrend, WindowSum(24, 30), WindowSum(15, 21))
        /\ TrendIs(out.metrics.monthlyTrend, WindowSum(17, 30), WindowSum(3, 16))

\* C14 (amended): the 7 days before the last 7 are days 17..23 of the window.
\* weeklyTrend is 0 whenever the scores of days 17..23 sum to 0 and monthlyTrend is
\* 0 whenever the scores of days 3..16 sum to 0; otherwise each is the relative
\* change of the averages in percent, rounded to one decimal; for the empty list
\* both are 0.
C14_TrendsGuarded ==
    out.kind = "de" =>
        IF Len(out.metrics.dailyEngagement) = 30
        THEN /\ TrendIs(out.metrics.weeklyTrend, WindowSum(24, 30), WindowSum(17, 23))
             /\ TrendIs(out.metrics.monthlyTrend, WindowSum(17, 30), WindowSum(3, 16))
        ELSE out.metrics.weeklyTrend = 0 /\ out.metrics.monthlyTrend = 0

\* days 15..21 are empty, days 22..23 are not, and both trends are computed from
\* a positive prior sum
C14_Witness ==
    /\ out.kind = "de"
    /\ Len(out.metrics.dailyEngagement) = 30
    /\ WindowSum(15, 21) = 0
    /\ WindowSum(17, 23) > 0
    /\ WindowSum(3, 16) > 0
    /\ out.metrics.weeklyTrend > 0
    /\ out.metrics.monthlyTrend > 0

----------------------------------------------------------------------------
(* Claims about the service calls, checked under Spec *)

\* C2: across any interleaving of getStudentData and addOrUpdateDailyEntry calls,
\* a badge id stored in a student's document stays in that document's badges in
\* every later state, as long as the document exists.
C2_StoredBadgesNeverRevoked ==
    [][\A sid \in Sids :
          (students[sid] # <<>> /\ students'[sid] # <<>>)
            => Range(students[sid][1].badges) \subseteq Range(students'[sid][1].badges)]_vars

\* C3: after any interleaving of addOrUpdateDailyEntry calls the dailyEntries
\* collection holds at most one document per (studentId, normalized date).
C3_OneRecordPerStudentAndDate ==
    \A i, j \in DocIds :
        (/\ dailyEntries[i] # <<>>
         /\ dailyEntries[j] # <<>>
         /\ dailyEntries[i][1].studentId = dailyEntries[j][1].studentId
         /\ dailyEntries[i][1].dateString = dailyEntries[j][1].dateString) => i = j

\* C8: when addOrUpdateDailyEntry writes to a date that already has a stored
\* record, the stored record afterwards has exactly the goal, reflection and quiz
\* fields of the supplied entry: a field the new entry omits does not survive.
C8_UpsertReplacesRecord ==
    [][\A c \in Callers :
          (calls[c].pc = "A_write" /\ calls'[c].pc = "G_getDoc" /\ calls[c].found # <<>>)
            => LET d == dailyEntries'[calls[c].found[1]][1]
                   e == calls[c].entry[1]
               IN  /\ d.goal = e.goal
                   /\ d.reflection = e.reflection
                   /\ d.quizEvaluation = e.quizEvaluation]_vars

----------------------------------------------------------------------------
(* Claims about the dashboard, checked under SpecAdmin *)

\* the records the store holds for a student
OwnEntries(sid) == ReadEntries(Query(LAMBDA d : d.studentId = sid))

\* the records with a goal that is present and not completed
OwnMissedGoals(es) == CountIdx(es, LAMBDA e : e.goal # Absent /\ ~e.goal[1].completed)

\* the step of getAdminDashboardData that reads the entries and computes the list
ComputesDashboard(c) == calls[c].pc = "D_entries" /\ calls'[c].pc = "D_users"

SnapshotOf(c, sid) ==
    calls[c].sdoc[CHOOSE i \in 1..Len(calls[c].sdoc) : calls[c].sdoc[i].studentId = sid]

\* C9: a student is listed as at-risk only if, over that student's own daily
\* records, the missed-goal count is > 2 or the average reflection depth is < 2,
\* or the student's consistencyScore is < 60.
C9_AtRiskFromOwnRecords ==
    [][\A c \in Callers :
          ComputesDashboard(c) =>
            LET listed == calls'[c].data[1].atRiskStudents
            IN  \A i \in 1..Len(listed) :
                  LET own == OwnEntries(listed[i].id)
                  IN  \/ OwnMissedGoals(own) > 2
                      \/ LowDepth(own)
                      \/ SnapshotOf(c, listed[i].id).consistencyScore < 60]_vars

\* C10: the missedGoals reported for a student counts exactly the student's
\* records that have a goal present with completed = false; a record without a
\* goal is not counted.
C10_MissedGoalsCountsOpenGoals ==
    [][\A c \in Callers :
          ComputesDashboard(c) =>
            LET listed == calls'[c].data[1].atRiskStudents
            IN  \A i \in 1..Len(listed) :
                  listed[i].missedGoals = OwnMissedGoals(OwnEntries(listed[i].id))]_vars

----------------------------------------------------------------------------
(* Claims about the dashboard computation, checked under SpecDash *)

RowOf(sid) == dashStudents[CHOOSE i \in 1..Len(dashStudents) : dashStudents[i].studentId = sid]

\* C11: the reason of an at-risk entry is the missed-goals reason whenever the
\* missed-goal count is > 2; otherwise the low-reflection-depth reason whenever the
\* average depth is < 2; otherwise the low-consistency reason whenever
\* consistencyScore < 60; 'Multiple issues' only when none of the three holds.
C11_ReasonPrecedence ==
    out.kind = "dash" =>
        \A i \in 1..Len(out.dashboard.atRiskStudents) :
            LET r == out.dashboard.atRiskStudents[i]
            IN  r.reason =
                  IF r.missedGoals > 2 THEN <<"Missed", r.missedGoals, "goals">>
                  ELSE IF LowDepth(StudentEntries(entries, r.id))
                       THEN <<"Low reflection depth">>
                       ELSE IF RowOf(r.id).consistencyScore < 60
                            THEN <<"Low consistency score">>
                            ELSE <<"Multiple issues">>

\* a student with more than 2 missed goals and a consistencyScore below 60 is
\* listed for the missed goals, and another student for the consistencyScore
C11_Witness ==
    /\ out.kind = "dash"
    /\ \E i, j \in 1..Len(out.dashboard.atRiskStudents) :
          LET a == out.dashboard.atRiskStudents[i]
              b == out.dashboard.atRiskStudents[j]
          IN  /\ a.missedGoals > 2
              /\ RowOf(a.id).consistencyScore < 60
              /\ a.reason[1] = "Missed"
              /\ b.reason = <<"Low consistency score">>

\* the positions of the students that pass the at-risk filter
Passing == {i \in 1..Len(dashStudents) : IsAtRisk(dashStudents[i], entries)}

\* the k-th passing position
KthPassing(k) == CHOOSE i \in Passing : Cardinality({j \in Passing : j < i}) = k - 1

\* C12: atRiskStudents has at most 5 entries and is the prefix, in the order the
\* students were read, of the students that pass the at-risk filter; no student
\* occurs twice.
C12_AtRiskCappedPrefix ==
    out.kind = "dash" =>
        LET listed == out.dashboard.atRiskStudents
        IN  /\ Len(listed) <= 5
            /\ Len(listed) = Min(5, Cardinality(Passing))
            /\ \A k \in 1..Len(listed) : listed[k].id = dashStudents[KthPassing(k)].studentId
            /\ \A k, l \in 1..Len(listed) : listed[k].id = listed[l].id => k = l

\* more than 5 students pass the filter and a student that does not pass was read
\* before one that is listed
C12_Witness ==
    /\ out.kind = "dash"
    /\ Cardinality(Passing) > 5
    /\ Len(out.dashboard.atRiskStudents) = 5
    /\ \E i \in 1..Len(dashStudents) : i \notin Passing /\ i < KthPassing(5)

\* the number of trailing entries of the returned window with a positive score
TrailingPositive ==
    LET de == out.metrics.dailyEngagement
    IN  CHOOSE k \in 0..Len(de) :
            /\ \A i \in (Len(de) - k + 1)..Len(de) : de[i].engagementScore > 0
            /\ k < Len(de) => de[Len(de) - k].engagementScore = 0

\* C21: streakDays is the number of trailing consecutive days of the window,
\* counted backward from today, with engagementScore > 0, stopping at the first
\* zero-score day; streakDays <= activeDays <= 30.
C21_StreakDaysTrailing ==
    out.kind = "de" =>
        /\ out.metrics.streakDays = TrailingPositive
        /\ out.metrics.streakDays <= out.metrics.activeDays
        /\ out.metrics.activeDays <= 30

\* today and an earlier day score, with a zero-score day between them
C21_Witness ==
    /\ out.kind = "de"
    /\ Len(out.metrics.dailyEngagement) = 30
    /\ out.metrics.streakDays >= 1
    /\ out.metrics.activeDays > out.metrics.streakDays

\* C27: activeDays returned by calculateDailyEngagement is the number of days in
\* [today-29, today] on which the list has a record with a goal, a reflection or
\* a quiz result.
C27_ActiveDaysCountsActiveRecords ==
    out.kind = "de" =>
        out.metrics.activeDays =
            Cardinality({day \in (Today - 29)..Today :
                            \E i \in 1..Len(entries) :
                                LocalDay(entries[i].date) = day /\ IsActive(entries[i])})

\* C30: no entry of atRiskStudents has the reason 'Multiple issues': a student
\* that passes the filter satisfies one of the three conditions, and the mapping
\* step finds the same one.
C30_NeverMultipleIssues ==
    out.kind = "dash" =>
        \A i \in 1..Len(out.dashboard.atRiskStudents) :
            out.dashboard.atRiskStudents[i].reason # <<"Multiple issues">>

\* a dashboard that lists a student for the last reason of the chain, from a
\* roster with a student at the consistency threshold who is not listed
C30_Witness ==
    /\ out.kind = "dash"
    /\ \E i \in 1..Len(out.dashboard.atRiskStudents) :
          out.dashboard.atRiskStudents[i].reason = <<"Low consistency score">>
    /\ \E k \in 1..Len(dashStudents) :
          /\ dashStudents[k].consistencyScore = AtRiskMinConsistency
          /\ \A i \in 1..Len(out.dashboard.atRiskStudents) :
                out.dashboard.atRiskStudents[i].id # dashStudents[k].studentId

----------------------------------------------------------------------------
(* Claims about the analytics view, checked under SpecAnalytics *)

\* C28: EngagementAnalytics evaluated with an empty entries list, with or without
\* student.dailyEngagement, raises no error and shows an engagement score in
\* 0..100.
C28_EmptyEntriesRender ==
    (out.kind = "analytics" /\ entries = <<>>) =>
        /\ ~out.threw
        /\ out.engagementScore[1] \in 0..100

----------------------------------------------------------------------------
(* Claims about the stored and the returned aggregates, checked under Spec *)

\* calculateConsistencyAndStreak over the records the store holds for a student
StoredAggregate(sid) == calculateConsistencyAndStreak(SortDesc(OwnEntries(sid)))

\* C22: whenever no getStudentData or addOrUpdateDailyEntry call is in flight and
\* an addOrUpdateDailyEntry for a student has completed, the consistencyScore in
\* the student's document equals calculateConsistencyAndStreak applied to the
\* student's stored daily entries.
C22_StoredScoreMatchesEntries ==
    (/\ \A c \in Callers : calls[c].pc = "idle"
     /\ returned.op = "add"
     /\ returned.err = "")
        => /\ students[returned.studentId] # <<>>
           /\ students[returned.studentId][1].consistencyScore
                 = StoredAggregate(returned.studentId).consistencyScore

\* the step completes an addOrUpdateDailyEntry call of c without error
AddCompletes(c) ==
    /\ calls[c].op = "add"
    /\ calls[c].pc # "idle"
    /\ calls'[c].pc = "idle"
    /\ returned'.err = ""

\* C23: addOrUpdateDailyEntry, when it completes without error, returns a
\* StudentData whose entries hold a record for the date of the entry just saved
\* and whose consistencyScore and streak are computed over the stored records.
C23_SaveReturnsUpdatedStudent ==
    [][\A c \in Callers :
          AddCompletes(c) =>
            LET data == returned'.value[1]
                sid == calls[c].studentId
            IN  /\ \E i \in 1..Len(data.entries) :
                      UtcDay(data.entries[i].date) = UtcDay(calls[c].entry[1].date)
                /\ data.consistencyScore = StoredAggregate(sid).consistencyScore'
                /\ data.streak = StoredAggregate(sid).streak']_vars

----------------------------------------------------------------------------
(* Claims about store failures, checked under SpecFaults *)

\* the step ends call c with an error
FailsAt(c) == calls[c].pc # "idle" /\ calls'[c].pc = "idle" /\ returned'.err # ""

\* the awaits that read the store and the awaits that write it
ReadPcs == {"A_query", "G_getDoc", "G_getDocs"}
WritePcs == {"A_write", "G_setDoc", "G_updateDoc"}

\* C19: a failure of getStudentData or addOrUpdateDailyEntry carries the signal of
\* the store operation that failed, 'Failed to fetch student data' for a read and
\* 'Failed to save daily entry' for a write; addOrUpdateDailyEntry reports
\* 'Failed to save daily entry' only when the entry was not persisted and
\* getStudentData reports 'Failed to fetch student data' only when a read failed.
C19_FailureSignalMatchesOperation ==
    [][\A c \in Callers :
          (FailsAt(c) /\ calls[c].op \in {"get", "add"}) =>
              /\ calls[c].pc \in ReadPcs => returned'.err = "Failed to fetch student data"
              /\ calls[c].pc \in WritePcs => returned'.err = "Failed to save daily entry"
              /\ (calls[c].op = "add" /\ returned'.err = "Failed to save daily entry")
                    => calls[c].pc \in {"A_query", "A_write"}
              /\ (calls[c].op = "get" /\ returned'.err = "Failed to fetch student data")
                    => calls[c].pc \in ReadPcs]_vars

\* the part of C19 about getStudentData alone: it reports 'Failed to fetch
\* student data' only when a read failed
C19_FetchOnlyOnRead ==
    [][\A c \in Callers :
          (FailsAt(c) /\ calls[c].op = "get") => calls[c].pc \in ReadPcs]_vars

\* the part of C19 about addOrUpdateDailyEntry alone: it reports 'Failed to save
\* daily entry' only when the entry was not persisted
C19_SaveOnlyWhenNotPersisted ==
    [][\A c \in Callers :
          (FailsAt(c) /\ calls[c].op = "add") => calls[c].pc \in {"A_query", "A_write"}]_vars

\* C20: when a store read or the cache write of getAdminDashboardData fails, the
\* call ends with a failure signal; a call that ends successfully returns the
\* dashboard it computed from the records it read.
C20_AdminFailureSurfaces ==
    [][\A c \in Callers :
          /\ GetAdminDashboardDataFails(c) => returned'.err # ""
          /\ (calls[c].op = "admin" /\ calls'[c].pc = "idle" /\ returned'.err = "")
                => (calls[c].pc = "D_cache" /\ returned'.value = calls[c].data)]_vars

----------------------------------------------------------------------------
(* Claims about the removal of users, checked under SpecRemove *)

IsRemoval(call) == call.op \in {"removeUser", "removeUserCompletely"}

\* the step ends call c
Ends(c) == calls[c].pc # "idle" /\ calls'[c].pc = "idle"

\* C24: after removeUser(userId, adminUserId) completes without error the store
\* holds no daily entry of userId, no students document and no users document
\* for userId.
C24_RemovalLeavesNothing ==
    [][\A c \in Callers :
          (/\ calls[c].op = "removeUser"
           /\ Ends(c)
           /\ returned'.err = ""
           /\ \A d \in Callers \ {c} : calls[d].pc = "idle")
            => LET userId == calls[c].studentId
               IN  /\ \A id \in DocIds :
                         dailyEntries'[id] # <<>> => dailyEntries'[id][1].studentId # userId
                   /\ userId \in Sids => students'[userId] = <<>>
                   /\ users'[userId] = <<>>]_vars

\* some document of the four collections is in the store before the step and
\* not after it
DeletesDocument ==
    \/ \E id \in DocIds : dailyEntries[id] # <<>> /\ dailyEntries'[id] = <<>>
    \/ \E sid \in Sids : students[sid] # <<>> /\ students'[sid] = <<>>
    \/ \E uid \in Uids : users[uid] # <<>> /\ users'[uid] = <<>>
    \/ adminUsers' # adminUsers

IsAdmin(uid) == users[uid] # <<>> /\ users[uid][1].role = "admin"

\* C25: removeUser deletes a document only when the caller's profile exists with
\* role ADMIN, the target profile exists, the target is not the caller and the
\* target's role is not ADMIN; in every other case it throws and no document is
\* deleted; the profile of an administrator is never deleted.
C25_RemovalGuarded ==
    [][/\ \A c \in Callers :
            /\ (calls[c].pc = "R_admin" /\ calls'[c].pc = "R_user") => IsAdmin(calls[c].adminUserId)
            /\ (calls[c].pc = "R_user" /\ calls'[c].pc = "R_query")
                  => /\ users[calls[c].studentId] # <<>>
                     /\ calls[c].studentId # calls[c].adminUserId
                     /\ ~IsAdmin(calls[c].studentId)
            /\ (calls[c].pc \in {"R_admin", "R_user"} /\ calls'[c].pc = "idle")
                  => /\ returned'.err # ""
                     /\ ~DeletesDocument
       /\ DeletesDocument
            => \E c \in Callers :
                  /\ calls[c].pc = "R_delete"
                  /\ calls'[c].pc # "R_delete"
                  /\ IsAdmin(calls[c].adminUserId)
                  /\ calls[c].studentId # calls[c].adminUserId
                  /\ ~IsAdmin(calls[c].studentId)
       /\ \A uid \in Uids : IsAdmin(uid) => users'[uid] = users[uid]]_vars

\* the student's profile is gone, both administrators have theirs, and the call
\* that ended last was refused
C25_Witness ==
    /\ users[SidU] = <<>>
    /\ IsAdmin(AdminA)
    /\ IsAdmin(AdminB)
    /\ IsRemoval(returned)
    /\ returned.studentId = AdminB
    /\ returned.err = "Cannot remove other admin users"

\* the steps of removeUserCompletely in their order
StepOrder == <<"firestore", "auth", "browser", "external">>

\* steps lists, without a gap, the steps the options ask for in the fixed order
InOrder(steps, options) ==
    LET asked == SelectSeq(StepOrder,
                           LAMBDA st : \/ st = "firestore"
                                       \/ st = "auth" /\ options.deleteAuthAccount
                                       \/ st = "browser" /\ options.clearBrowserData
                                       \/ st = "external" /\ options.clearExternalData)
    IN  /\ Len(steps) <= Len(asked)
        /\ steps = SubSeq(asked, 1, Len(steps))

\* C26: removeUserCompletely runs Firestore deletion, auth-account deletion,
\* browser-data clearing and external-data clearing in that order, each if
\* requested; a failure at a step makes the call throw and prevents every later
\* step; and whenever the call throws, none of the user's Firestore documents has
\* been deleted.
C26_RemovalAllOrNothing ==
    [][\A c \in Callers :
          (calls[c].op = "removeUserCompletely" /\ Ends(c)) =>
              /\ InOrder(returned'.value, calls[c].options)
              /\ returned'.err = "" => Len(returned'.value) > 0
              /\ returned'.err # "" => "firestore" \notin Range(returned'.value)]_vars

----------------------------------------------------------------------------
(* Claims about the removal dialog, checked under SpecDialog *)

\* C29: removingUserId is non-null only while a removeUserCompletely call is in
\* flight and is null again after every confirm, successful or failed; the
\* dialog is closed after a successful removal and stays open after a failed
\* one; while a removal is in flight neither Confirm nor Cancel fires, so at most
\* one removeUserCompletely call is in flight at any time.
C29_DialogLocksWhileRemoving ==
    [][/\ dialog.removingUserId # <<>> => pending # <<>>
       /\ \A i \in 1..MaxPending :
            /\ RemovalResolves(i)
                  => dialog'.removingUserId = <<>> /\ dialog'.showDeletionModal = <<>>
            /\ RemovalRejects(i)
                  => /\ dialog'.removingUserId = <<>>
                     /\ dialog'.showDeletionModal # <<>>
                     /\ dialog'.showDeletionModal = dialog.showDeletionModal
       /\ pending # <<>> => ~(HandleConfirm \/ CancelRemove)
       /\ Len(pending') <= 1]_vars

====
